---- MODULE Spec2Model ----
(***************************************************************************)
(* Model of the purpleAirRelayControl firmware core:                       *)
(*   - PurpleAirSensor: the acquisition scheduler (updateAQI,              *)
(*     forceInitialUpdate) with its local and API pollers;                 *)
(*   - getLocalAirQuality and getAPIAirQuality step by step: pings,        *)
(*     connections, requests and the reading of the JSON documents;        *)
(*   - VentilationControl: the hysteresis decision and the relay effector; *)
(*   - calculateAQI and linearInterpolation, call by call;                 *)
(*   - begin() and the watchdog resets and waits of the thread of control. *)
(*                                                                         *)
(* Time.  The firmware clock is millis(), a 32-bit unsigned millisecond    *)
(* counter.  TLC integers are 32-bit signed, so the model counts time in   *)
(* ticks of 4 ms: 2^32 ms = 2^30 ticks, and every interval of constants.h  *)
(* is a whole number of ticks.  All arithmetic on times is the code's      *)
(* arithmetic, modulo the clock range.                                     *)
(*                                                                         *)
(* Concentrations are fixed point, in tenths of ug/m3.                     *)
(***************************************************************************)
EXTENDS Integers, Sequences, FiniteSets, TLC

-----------------------------------------------------------------------------
(* Program constants *)

\* milliseconds -> clock ticks (one tick = 4 ms)
Ms(x) == x \div 4

\* range of unsigned long (2^32 ms, in ticks)
ULongRange == 2^30

LOCAL_SENSOR_DELAY == Ms(1000 * 60)
PURPLE_AIR_DELAY == Ms(1000 * 60 * 20)
MAX_LOCAL_CONNECTION_ATTEMPTS == 3

\* the waits of begin() and of the local poll, in ms
LOCAL_RETRY_DELAY_MS == 500
WIFI_CONNECT_ATTEMPT_TIMEOUT_MS == 15000
WIFI_CONNECT_RETRY_DELAY_MS == 5000

ENABLE_THRESHOLD == 120
DISABLE_THRESHOLD == 130

\* LEDColors::VENTILATION_ON / VENTILATION_OFF
VENTILATION_ON == <<0, 50, 0>>
VENTILATION_OFF == <<50, 0, 0>>

\* enum class SwitchState
SwitchState == {"OFF", "PURPLEAIR", "ON"}

\* the failure / no-data sentinel of the pollers and of currentAQI
NoData == -1

\* a null char pointer
NullPtr == "nullptr"

-----------------------------------------------------------------------------
(* Bounds of the model *)

\* The sensor is called at instants k API intervals plus j half local
\* intervals after boot, k <= MaxApiIntervals and j <= MaxHalfSteps: calls
\* inside and outside both poll windows, around boot and around each
\* multiple of the API interval.
MaxApiIntervals == 2
MaxHalfSteps == 2

\* the largest concentration calculateAQI is called with, in tenths of ug/m3
MaxConcentration == 6000

\* the calls of updateAQI made with a wrapping clock
MaxWrapCalls == 2

\* the repeated calls of updateAQI are followed for one API interval and
\* MaxLoopIntervals local intervals
MaxLoopIntervals == 3

\* configurations the sensor object may be constructed with
LocalServerIPs == {NullPtr, "", "192.168.1.100"}
ApiKeys == {NullPtr, "", "KEY"}
NumSensorsChoices == {0, 2}

\* AQI values offered to VentilationControl::update
AqiInputs == {-1, 0, 100, 119, 120, 125, 129, 130, 135}

-----------------------------------------------------------------------------
(* 32-bit clock arithmetic *)

\* unsigned long -> long (the stamps are stored in signed fields)
ToLong(u) == IF u >= ULongRange \div 2 THEN u - ULongRange ELSE u

\* (mutant) the difference converted to long before it is compared
Elapsed_signed(now, stamp) == ToLong((now - stamp) % ULongRange)

\* masterCurrentTime - lastXCheckTime, evaluated in unsigned long
Elapsed(now, stamp) == (now - stamp) % ULongRange

-----------------------------------------------------------------------------
(* AQI derivation *)

\* linearInterpolation trimming the query point from above only
linearInterpolation_upperTrimOnly(cLow, cHigh, iLow, iHigh, pointX, trim) ==
    LET x == IF trim /\ pointX > cHigh THEN cHigh ELSE pointX
    IN IF cHigh = cLow
       THEN (IF x >= cLow THEN <<iHigh, 1>> ELSE <<iLow, 1>>)
       ELSE <<(iHigh - iLow) * (x - cLow) + iLow * (cHigh - cLow), cHigh - cLow>>

\* linearInterpolation: the interpolated value as a fraction <<num, den>>,
\* den > 0; concentrations in tenths
linearInterpolation(cLow, cHigh, iLow, iHigh, pointX, trim) ==
    LET x1 == IF trim /\ pointX > cHigh THEN cHigh ELSE pointX
        x == IF trim /\ x1 < cLow THEN cLow ELSE x1
    IN IF cHigh = cLow
       THEN (IF x >= cLow THEN <<iHigh, 1>> ELSE <<iLow, 1>>)
       ELSE <<(iHigh - iLow) * (x - cLow) + iLow * (cHigh - cLow), cHigh - cLow>>

\* calculateAQI with no band trimmed
calculateAQI_untrimmed(pm2p5) ==
    IF pm2p5 < 0 THEN <<0, 1>>
    ELSE IF pm2p5 > 3505 THEN linearInterpolation(3505, 5004, 401, 500, pm2p5, FALSE)
    ELSE IF pm2p5 > 2505 THEN linearInterpolation(2505, 3504, 301, 400, pm2p5, FALSE)
    ELSE IF pm2p5 > 1505 THEN linearInterpolation(1505, 2504, 201, 300, pm2p5, FALSE)
    ELSE IF pm2p5 > 555 THEN linearInterpolation(555, 1504, 151, 200, pm2p5, FALSE)
    ELSE IF pm2p5 > 355 THEN linearInterpolation(355, 554, 101, 150, pm2p5, FALSE)
    ELSE IF pm2p5 > 121 THEN linearInterpolation(121, 354, 51, 100, pm2p5, FALSE)
    ELSE linearInterpolation(0, 120, 0, 50, pm2p5, FALSE)

\* calculateAQI: pm2p5 in tenths of ug/m3, result a fraction
calculateAQI(pm2p5) ==
    IF pm2p5 < 0 THEN <<0, 1>>
    ELSE IF pm2p5 > 3505 THEN linearInterpolation(3505, 5004, 401, 500, pm2p5, TRUE)
    ELSE IF pm2p5 > 2505 THEN linearInterpolation(2505, 3504, 301, 400, pm2p5, FALSE)
    ELSE IF pm2p5 > 1505 THEN linearInterpolation(1505, 2504, 201, 300, pm2p5, FALSE)
    ELSE IF pm2p5 > 555 THEN linearInterpolation(555, 1504, 151, 200, pm2p5, FALSE)
    ELSE IF pm2p5 > 355 THEN linearInterpolation(355, 554, 101, 150, pm2p5, FALSE)
    ELSE IF pm2p5 > 121 THEN linearInterpolation(121, 354, 51, 100, pm2p5, FALSE)
    ELSE linearInterpolation(0, 120, 0, 50, pm2p5, FALSE)

\* static_cast<int>(round(q)): round half away from zero
RoundToInt(q) ==
    IF q[1] >= 0
    THEN (2 * q[1] + q[2]) \div (2 * q[2])
    ELSE -((2 * (-q[1]) + q[2]) \div (2 * q[2]))

-----------------------------------------------------------------------------
(* State *)

VARIABLES
    \* PurpleAirSensor: configuration, fixed by the constructor
    localServerIP, apiKey, numSensors,
    \* PurpleAirSensor: fields
    lastLocalCheckTime, lastApiCheckTime, currentAQI, localSensorAvailable,
    \* the masterCurrentTime of the latest call (the caller passes millis())
    clock,
    \* what the latest call on the sensor did
    cycle,
    \* the time of the latest local / API poll attempt so far (NoData: none)
    localAttemptAt, apiAttemptAt,
    \* the time of the latest call whose local poll succeeded (NoData: none)
    localSuccessAt,
    \* VentilationControl: field, outputs and pin setup
    ventilationState, relay1, relay2, led, pinsConfigured,
    \* what the latest call on the controller was, with its inputs
    ventCall,
    \* how many updates since construction followed the hysteresis example
    hystStep,
    \* WiFi.status() == WL_CONNECTED while a poll runs
    wifiConnected,
    \* the poll being executed, the function that called it, and the
    \* position reached in it
    pollOp, pollCaller, pc,
    \* getLocalAirQuality: the loop variable, and what the current attempt
    \* has done so far (preceded by "delay" if it began after the wait)
    attempt, attemptLog,
    \* the client of the current attempt is connected; connections open in
    \* all, clients left behind included
    connected, openConnections,
    \* network operations of the poll so far
    net,
    \* the document read by the latest request (an index into LocalDocs or
    \* ApiDocs, 0 if none was read)
    docId,
    \* the local variables currentAttemptAQI / resultAQI, and the value the
    \* poll returned
    currentAttemptAQI, pollResult,
    \* WiFi.status(), and the statement the program has reached from reset on
    wifiStatus, threadAt,
    \* millis() less the start of the wait loop being executed, in ms
    waited,
    \* the latest two calls among wdt_reset, delay, WiFi.begin and the polls,
    \* and the argument of the latest delay in ms
    calls, sleep,
    \* the failed attempts of the local poll being executed that were followed
    \* by the wait before the next
    retries,
    \* the latest call of calculateAQI or linearInterpolation, with its result
    mathCall,
    \* the time that has really passed since each stamp was written, now and
    \* on entry to the latest call of updateAQI, and the number of calls made
    \* with a wrapping clock
    trueElapsed,
    \* the latest call of getTimeUntilNextLocalCheck or
    \* getTimeUntilNextApiCheck, with its result
    timerCall

sensorVars == <<localServerIP, apiKey, numSensors, lastLocalCheckTime,
                lastApiCheckTime, currentAQI, localSensorAvailable, clock,
                cycle, localAttemptAt, apiAttemptAt, localSuccessAt>>

ventVars == <<ventilationState, relay1, relay2, led, pinsConfigured,
              ventCall, hystStep>>

pollVars == <<wifiConnected, pollOp, pollCaller, pc, attempt, attemptLog,
              connected, openConnections, net, docId, currentAttemptAQI,
              pollResult>>

bootVars == <<wifiStatus, threadAt, waited, calls, sleep, retries>>

mathVars == <<mathCall>>

timerVars == <<trueElapsed, timerCall>>

vars == <<sensorVars, ventVars, pollVars, bootVars, mathVars, timerVars>>

-----------------------------------------------------------------------------
(* PurpleAirSensor: the pollers *)

isLocalConfigured == localServerIP # NullPtr /\ localServerIP # ""

\* bool apiConfigured = (apiKey != nullptr && apiKey[0] != '\0' && numSensors > 0)
apiConfigured == apiKey # NullPtr /\ apiKey # "" /\ numSensors > 0

\* the instants, in ticks, at which the sensor may be called
CallTimes ==
    {k * PURPLE_AIR_DELAY + j * (LOCAL_SENSOR_DELAY \div 2) :
        k \in 0..MaxApiIntervals, j \in 0..MaxHalfSteps}

\* What one attempt of the local poll meets.  kind:
\*   pingFail, connectFail  the attempt ends before a request is made
\*   httpFail, parseError   the request is made, no document is read
\*   noData                 the document has no usable PM2.5 record
\*   direct                 the document has "pm2.5_aqi" = val
\*   pm                     the usable records average to val (tenths)
AttemptOutcome(kind, val) == [kind |-> kind, val |-> val]

\* currentAttemptAQI at the end of an attempt that made a request
CurrentAttemptAQI(o) ==
    IF o.kind = "direct" THEN o.val
    ELSE IF o.kind = "pm" THEN RoundToInt(calculateAQI(o.val))
    ELSE NoData

\* the retry loop of getLocalAirQuality from attempt k on, with
\* localSensorAvailable = available so far
RECURSIVE LocalAttempts(_, _, _)
LocalAttempts(script, k, available) ==
    IF k > MAX_LOCAL_CONNECTION_ATTEMPTS
    THEN [aqi |-> NoData, available |-> FALSE]
    ELSE LET o == script[k]
             aqi == CurrentAttemptAQI(o)
         IN IF o.kind \in {"pingFail", "connectFail"}
            THEN LocalAttempts(script, k + 1, available)
            ELSE IF aqi >= 0
            THEN [aqi |-> aqi, available |-> TRUE]
            ELSE LocalAttempts(script, k + 1,
                               available \/ o.kind \in {"direct", "pm"})

\* getLocalAirQuality: the value returned and localSensorAvailable afterwards
getLocalAirQuality(script) ==
    IF ~isLocalConfigured
    THEN [aqi |-> NoData, available |-> FALSE]
    ELSE LocalAttempts(script, 1, FALSE)

\* What the single request of the API poll meets.  kind:
\*   httpFail, parseError, badShape, noColumn   no rows are read
\*   noRows                                     no row has a usable value
\*   pm                                         the usable rows average to val
\* getAPIAirQuality: the value returned.  The request path of the sensor
\* IDs of NumSensorsChoices fits apiPathBuffer, so the two early returns of
\* the path loop are not taken.
getAPIAirQuality(o) ==
    IF apiKey = NullPtr \/ apiKey = "" THEN NoData
    ELSE IF numSensors = 0 THEN NoData
    ELSE IF o.kind = "pm" THEN RoundToInt(calculateAQI(o.val))
    ELSE NoData

-----------------------------------------------------------------------------
(* PurpleAirSensor: inputs of the model *)

\* attempt outcomes the local sensor may produce; 0.0 ug/m3 is AQI 0, and
\* the sensor may send any integer as its "pm2.5_aqi"
LocalOutcomes ==
    {AttemptOutcome("pingFail", 0), AttemptOutcome("parseError", 0),
     AttemptOutcome("direct", -5),
     AttemptOutcome("pm", 0), AttemptOutcome("direct", 135),
     AttemptOutcome("direct", 501)}

\* one outcome for each attempt the local poll may make
LocalScripts == [1..MAX_LOCAL_CONNECTION_ATTEMPTS -> LocalOutcomes]

\* outcomes of the API request; 35.4 ug/m3 is AQI 100
ApiOutcomes ==
    {AttemptOutcome("httpFail", 0), AttemptOutcome("noRows", 0),
     AttemptOutcome("pm", 354)}

\* what the retry loop may return, with localSensorAvailable afterwards
RetryLoopResults == {LocalAttempts(script, 1, FALSE) : script \in LocalScripts}

\* what a local poll may return, with localSensorAvailable afterwards: the
\* values of getLocalAirQuality(script) over LocalScripts
LocalPollResults ==
    IF isLocalConfigured
    THEN RetryLoopResults
    ELSE {getLocalAirQuality(script) : script \in {<<>>}}

\* what an API poll may return
ApiPollResults == {getAPIAirQuality(o) : o \in ApiOutcomes}

\* no getter has been called since the latest updateAQI
NoTimerCall == [op |-> "none", elapsed |-> 0, result |-> 0]

-----------------------------------------------------------------------------
(* PurpleAirSensor::updateAQI *)

\* the first condition of updateAQI: the local source is polled
LocalDue(now) ==
    isLocalConfigured /\ Elapsed(now, lastLocalCheckTime) >= LOCAL_SENSOR_DELAY

\* (mutant) the API timer compared with the local interval
ApiTimerDue_localInterval(now) ==
    Elapsed(now, lastApiCheckTime) >= LOCAL_SENSOR_DELAY

\* (mutant) the API timer is not looked at
ApiTimerDue_ignored(now) == TRUE

\* the timer part of the second condition
ApiTimerDue(now) == Elapsed(now, lastApiCheckTime) >= PURPLE_AIR_DELAY

\* (mutant) the API is polled only when no local source is configured
ApiDue_onlyWithoutLocal(now, attemptedLocal, localSucceeded) ==
    /\ apiConfigured
    /\ ~isLocalConfigured
    /\ ApiTimerDue(now)

\* (mutant) the API is polled whenever its timer is due
ApiDue_timerOnly(now, attemptedLocal, localSucceeded) ==
    /\ apiConfigured
    /\ ApiTimerDue(now)

\* the second condition of updateAQI, reached when the local poll did not
\* succeed: the API is polled
ApiDue(now, attemptedLocal, localSucceeded) ==
    /\ apiConfigured
    /\ (~isLocalConfigured \/ (attemptedLocal /\ ~localSucceeded))
    /\ ApiTimerDue(now)

\* (mutant) the local stamp is set only when the local poll succeeds
LocalStamp_onSuccess(now, attemptedLocal, localAqi) ==
    IF attemptedLocal /\ localAqi >= 0 THEN ToLong(now) ELSE lastLocalCheckTime

\* (mutant) the local stamp is set by every call, polled or not
LocalStamp_always(now, attemptedLocal, localAqi) == ToLong(now)

\* lastLocalCheckTime after the call: stamped on every local attempt
LocalStamp(now, attemptedLocal, localAqi) ==
    IF attemptedLocal THEN ToLong(now) ELSE lastLocalCheckTime

\* (mutant) the API stamp is set only when the API is polled
ApiStamp_onAttempt(now, localSucceeded, attemptedApi) ==
    IF attemptedApi THEN ToLong(now) ELSE lastApiCheckTime

\* (mutant) the API stamp is set by every call, polled or not
ApiStamp_always(now, localSucceeded, attemptedApi) == ToLong(now)

\* lastApiCheckTime after the call: stamped on a local success and on
\* every API attempt
ApiStamp(now, localSucceeded, attemptedApi) ==
    IF localSucceeded \/ attemptedApi THEN ToLong(now) ELSE lastApiCheckTime

\* (mutant) whatever was fetched is stored, valid or not
AdoptAQI_unchecked(attemptedLocal, localAqi, attemptedApi, fetchedApi) ==
    IF attemptedApi THEN fetchedApi
    ELSE IF attemptedLocal THEN localAqi
    ELSE currentAQI

\* (mutant) a fetched 0 is taken for "no data"
AdoptAQI_zeroIsNoData(attemptedLocal, localAqi, attemptedApi, fetchedApi) ==
    IF attemptedLocal /\ localAqi >= 0
    THEN (IF localAqi > 0 THEN localAqi ELSE currentAQI)
    ELSE IF attemptedApi /\ fetchedApi > 0 THEN fetchedApi
    ELSE currentAQI

\* currentAQI after the call: a fetched value is adopted only if >= 0
AdoptAQI(attemptedLocal, localAqi, attemptedApi, fetchedApi) ==
    IF attemptedLocal /\ localAqi >= 0 THEN localAqi
    ELSE IF attemptedApi /\ fetchedApi >= 0 THEN fetchedApi
    ELSE currentAQI

\* the whole call: what it did and the fields afterwards
\* (local: what getLocalAirQuality returns if called; fetchedApi: what
\* getAPIAirQuality returns if called)
\* the flag cleared by nothing after a poll that failed
AvailableAfter_keptOnFailure(attemptedLocal, local) ==
    IF attemptedLocal /\ local.aqi >= 0 THEN local.available
    ELSE localSensorAvailable

\* localSensorAvailable after updateAQI: as the poll left it on success,
\* cleared after a poll that failed, untouched when no local poll was made
AvailableAfter(attemptedLocal, local) ==
    IF attemptedLocal /\ local.aqi >= 0 THEN local.available
    ELSE IF attemptedLocal THEN FALSE
    ELSE localSensorAvailable

UpdateAQIResult(now, local, fetchedApi) ==
    LET attemptedLocal == LocalDue(now)
        localSucceeded == attemptedLocal /\ local.aqi >= 0
        attemptedApi == ~localSucceeded /\ ApiDue(now, attemptedLocal, localSucceeded)
        apiSucceeded == attemptedApi /\ fetchedApi >= 0
    IN [attemptedLocal |-> attemptedLocal,
        attemptedApi |-> attemptedApi,
        localResult |-> IF attemptedLocal THEN local.aqi ELSE NoData,
        apiResult |-> IF attemptedApi THEN fetchedApi ELSE NoData,
        updated |-> localSucceeded \/ apiSucceeded,
        lastLocalCheckTime |-> LocalStamp(now, attemptedLocal, local.aqi),
        lastApiCheckTime |-> ApiStamp(now, localSucceeded, attemptedApi),
        currentAQI |-> AdoptAQI(attemptedLocal, local.aqi, attemptedApi, fetchedApi),
        localSensorAvailable |-> AvailableAfter(attemptedLocal, local)]

\* The record of a call, kept for the properties:
\*   apiTimerDue         now - lastApiCheckTime >= PURPLE_AIR_DELAY on entry
\*   localGap, apiGap    the time since the previous attempt on the source
\*                       this call polls (NoData: not polled, or never before)
\*   prev                the call before this one
CycleRecord(op, now, r) ==
    [op |-> op,
     attemptedLocal |-> r.attemptedLocal, attemptedApi |-> r.attemptedApi,
     localResult |-> r.localResult, apiResult |-> r.apiResult,
     updated |-> r.updated,
     apiTimerDue |-> (now - lastApiCheckTime) % ULongRange >= PURPLE_AIR_DELAY,
     localGap |-> IF r.attemptedLocal /\ localAttemptAt # NoData
                  THEN now - localAttemptAt ELSE NoData,
     apiGap |-> IF r.attemptedApi /\ apiAttemptAt # NoData
                THEN now - apiAttemptAt ELSE NoData,
     prev |-> [op |-> cycle.op, attemptedLocal |-> cycle.attemptedLocal,
               attemptedApi |-> cycle.attemptedApi]]

CommitSensor(op, now, r) ==
    /\ clock' = now
    /\ lastLocalCheckTime' = r.lastLocalCheckTime
    /\ lastApiCheckTime' = r.lastApiCheckTime
    /\ currentAQI' = r.currentAQI
    /\ localSensorAvailable' = r.localSensorAvailable
    /\ cycle' = CycleRecord(op, now, r)
    /\ localAttemptAt' = IF r.attemptedLocal THEN now ELSE localAttemptAt
    /\ apiAttemptAt' = IF r.attemptedApi THEN now ELSE apiAttemptAt
    /\ localSuccessAt' = IF r.attemptedLocal /\ r.localResult >= 0 THEN now
                         ELSE localSuccessAt
    /\ UNCHANGED <<localServerIP, apiKey, numSensors>>
    /\ UNCHANGED ventVars
    /\ UNCHANGED <<pollVars, bootVars, mathVars>>

Commit(op, now, r) == CommitSensor(op, now, r) /\ UNCHANGED timerVars

updateAQI ==
    \E local \in LocalPollResults, fetchedApi \in ApiPollResults :
        \E now \in CallTimes :
            /\ now >= clock
            /\ Commit("updateAQI", now, UpdateAQIResult(now, local, fetchedApi))

\* the steps, shorter than either poll interval, by which the time passed
\* to updateAQI advances when loop() calls it again and again
LoopSteps == {LOCAL_SENSOR_DELAY \div 2, LOCAL_SENSOR_DELAY - 1}

\* the time up to which the repeated calls are followed
LoopHorizon == PURPLE_AIR_DELAY + MaxLoopIntervals * LOCAL_SENSOR_DELAY

\* updateAQI called by loop(), a step after the call before, with an API
\* service that answers every poll with a valid AQI; the calls are followed
\* from construction until the held AQI is first valid
updateAQI_loop ==
    \E local \in LocalPollResults,
       fetchedApi \in {a \in ApiPollResults : a >= 0 \/ ~apiConfigured} :
        \E step \in LoopSteps :
            /\ currentAQI < 0
            /\ clock + step <= LoopHorizon
            /\ Commit("updateAQI", clock + step,
                      UpdateAQIResult(clock + step, local, fetchedApi))

-----------------------------------------------------------------------------
(* The wrapping clock: updateAQI and the timing getters *)

\* the times between a call and the next: either interval and a tick less,
\* half the range of the clock, and what brings the clock to wrap
WrapSteps ==
    {LOCAL_SENSOR_DELAY - 1, LOCAL_SENSOR_DELAY,
     PURPLE_AIR_DELAY - 1, PURPLE_AIR_DELAY,
     ULongRange \div 2, ULongRange - LOCAL_SENSOR_DELAY, ULongRange - 1}

\* the time really passed since a stamp, a step after it was e; ULongRange
\* stands for every time of 2^32 ms or more
TrueElapsed(e, step) ==
    IF e + step >= ULongRange THEN ULongRange ELSE e + step

\* updateAQI called with millis(), which wraps at 2^32 ms, a step after the
\* call before
updateAQI_wrapped ==
    \E local \in LocalPollResults, fetchedApi \in ApiPollResults :
        \E step \in WrapSteps :
            LET now == (clock + step) % ULongRange
                r == UpdateAQIResult(now, local, fetchedApi)
                eLocal == TrueElapsed(trueElapsed.local, step)
                eApi == TrueElapsed(trueElapsed.api, step)
            IN /\ trueElapsed.calls < MaxWrapCalls
               /\ CommitSensor("updateAQI", now, r)
               /\ trueElapsed' =
                      [calls |-> trueElapsed.calls + 1,
                       local |-> IF r.attemptedLocal THEN 0 ELSE eLocal,
                       api |-> IF r.attemptedApi
                                  \/ (r.attemptedLocal /\ r.localResult >= 0)
                               THEN 0 ELSE eApi,
                       localAtCall |-> eLocal, apiAtCall |-> eApi]
               /\ timerCall' = NoTimerCall

\* PurpleAirSensor::getTimeUntilNextLocalCheck, millis() being the clock
\* read; timePassed is a long
getTimeUntilNextLocalCheck(millis) ==
    IF ~isLocalConfigured THEN LOCAL_SENSOR_DELAY
    ELSE LET timePassed == ToLong(Elapsed(millis, lastLocalCheckTime))
         IN IF timePassed >= LOCAL_SENSOR_DELAY THEN 0
            ELSE (LOCAL_SENSOR_DELAY - timePassed) % ULongRange

\* PurpleAirSensor::getTimeUntilNextApiCheck
getTimeUntilNextApiCheck(millis) ==
    IF ~apiConfigured THEN PURPLE_AIR_DELAY
    ELSE LET timePassed == ToLong(Elapsed(millis, lastApiCheckTime))
         IN IF timePassed >= PURPLE_AIR_DELAY THEN 0
            ELSE (PURPLE_AIR_DELAY - timePassed) % ULongRange

\* the times between the latest call of updateAQI and a call of a getter
GetterSteps == WrapSteps \cup {0}

\* a call of getTimeUntilNextLocalCheck, a step after the latest updateAQI
getTimeUntilNextLocalCheck_call ==
    \E step \in GetterSteps :
        /\ timerCall' = [op |-> "getTimeUntilNextLocalCheck",
                         elapsed |-> TrueElapsed(trueElapsed.local, step),
                         result |-> getTimeUntilNextLocalCheck(
                                        (clock + step) % ULongRange)]
        /\ UNCHANGED <<sensorVars, ventVars, pollVars, bootVars, mathVars,
                       trueElapsed>>

\* a call of getTimeUntilNextApiCheck, a step after the latest updateAQI
getTimeUntilNextApiCheck_call ==
    \E step \in GetterSteps :
        /\ timerCall' = [op |-> "getTimeUntilNextApiCheck",
                         elapsed |-> TrueElapsed(trueElapsed.api, step),
                         result |-> getTimeUntilNextApiCheck(
                                        (clock + step) % ULongRange)]
        /\ UNCHANGED <<sensorVars, ventVars, pollVars, bootVars, mathVars,
                       trueElapsed>>

-----------------------------------------------------------------------------
(* PurpleAirSensor::forceInitialUpdate *)

\* forceInitialUpdate polling under the conditions of updateAQI
ForceInitialUpdateResult_timed(now, local, fetchedApi) ==
    UpdateAQIResult(now, local, fetchedApi)

\* forceInitialUpdate leaving the API stamp alone when it polls no API
ForceInitialUpdateResult_apiStampOnPoll(now, local, fetchedApi) ==
    LET attemptedLocal == isLocalConfigured
        localSucceeded == attemptedLocal /\ local.aqi >= 0
        attemptedApi == ~localSucceeded /\ apiConfigured
        apiSucceeded == attemptedApi /\ fetchedApi >= 0
    IN [attemptedLocal |-> attemptedLocal,
        attemptedApi |-> attemptedApi,
        localResult |-> IF attemptedLocal THEN local.aqi ELSE NoData,
        apiResult |-> IF attemptedApi THEN fetchedApi ELSE NoData,
        updated |-> localSucceeded \/ apiSucceeded,
        lastLocalCheckTime |-> ToLong(now),
        lastApiCheckTime |-> IF localSucceeded \/ attemptedApi
                             THEN ToLong(now) ELSE lastApiCheckTime,
        currentAQI |-> IF localSucceeded THEN local.aqi
                       ELSE IF apiSucceeded THEN fetchedApi
                       ELSE currentAQI,
        localSensorAvailable |-> IF localSucceeded THEN local.available
                                 ELSE FALSE]

ForceInitialUpdateResult(now, local, fetchedApi) ==
    LET attemptedLocal == isLocalConfigured
        localSucceeded == attemptedLocal /\ local.aqi >= 0
        attemptedApi == ~localSucceeded /\ apiConfigured
        apiSucceeded == attemptedApi /\ fetchedApi >= 0
    IN [attemptedLocal |-> attemptedLocal,
        attemptedApi |-> attemptedApi,
        localResult |-> IF attemptedLocal THEN local.aqi ELSE NoData,
        apiResult |-> IF attemptedApi THEN fetchedApi ELSE NoData,
        updated |-> localSucceeded \/ apiSucceeded,
        lastLocalCheckTime |-> ToLong(now),
        lastApiCheckTime |-> ToLong(now),
        currentAQI |-> IF localSucceeded THEN local.aqi
                       ELSE IF apiSucceeded THEN fetchedApi
                       ELSE currentAQI,
        localSensorAvailable |-> IF localSucceeded THEN local.available
                                 ELSE FALSE]

forceInitialUpdate ==
    \E local \in LocalPollResults, fetchedApi \in ApiPollResults :
        \E now \in CallTimes :
            /\ now >= clock
            /\ Commit("forceInitialUpdate", now,
                      ForceInitialUpdateResult(now, local, fetchedApi))

-----------------------------------------------------------------------------
(* JSON documents, as ArduinoJson presents them to the pollers *)

\* a JSON number (concentrations in tenths), null, and a string that is
\* not a number
Num(v) == [t |-> "num", v |-> v]
Null == [t |-> "null", v |-> 0]
Text == [t |-> "text", v |-> 0]

\* JsonVariant::as<double>() and as<int>(): the number, and 0 for a value
\* that is not one
asNumber(x) == IF x.t = "num" THEN x.v ELSE 0

\* is<float>() || is<double>() || is<int>()
isNumber(x) == x.t = "num"

\* an object without members
NoMembers == [k \in {} |-> Null]

\* containsKey: the member exists, whatever its value
containsKey(obj, key) == key \in DOMAIN obj

\* the documents a local sensor may answer with: an object (with or without
\* a "results" array of records), an array of records, anything else
ObjectDoc(members) ==
    [shape |-> "object", members |-> members, hasResults |-> FALSE,
     records |-> <<>>]

ResultsDoc(members, results) ==
    [shape |-> "object", members |-> members, hasResults |-> TRUE,
     records |-> results]

ArrayDoc(items) ==
    [shape |-> "array", members |-> NoMembers, hasResults |-> FALSE,
     records |-> items]

ScalarDoc ==
    [shape |-> "other", members |-> NoMembers, hasResults |-> FALSE,
     records |-> <<>>]

\* the answer of the API: "fields" and "data" are arrays (shapeOk), the
\* names in fields, the rows of data
ApiDoc(shapeOk, fields, data) ==
    [shapeOk |-> shapeOk, fields |-> fields, data |-> data]

\* a row of "data" that is an array, and one that is not
Row(cells) == [isArray |-> TRUE, cells |-> cells]
NotARow == [isArray |-> FALSE, cells |-> <<>>]

\* the sensor IDs the object is constructed with
ConfiguredIDs == <<101, 102>>
sensorIDs == SubSeq(ConfiguredIDs, 1, numSensors)

\* calculateAQI(sum / n), n > 0: the comparisons and the interpolation of
\* calculateAQI with both sides of each multiplied by n
calculateAQIOfMean(sum, n) ==
    IF sum < 0 THEN <<0, 1>>
    ELSE IF sum > 3505 * n THEN linearInterpolation(3505 * n, 5004 * n, 401, 500, sum, TRUE)
    ELSE IF sum > 2505 * n THEN linearInterpolation(2505 * n, 3504 * n, 301, 400, sum, FALSE)
    ELSE IF sum > 1505 * n THEN linearInterpolation(1505 * n, 2504 * n, 201, 300, sum, FALSE)
    ELSE IF sum > 555 * n THEN linearInterpolation(555 * n, 1504 * n, 151, 200, sum, FALSE)
    ELSE IF sum > 355 * n THEN linearInterpolation(355 * n, 554 * n, 101, 150, sum, FALSE)
    ELSE IF sum > 121 * n THEN linearInterpolation(121 * n, 354 * n, 51, 100, sum, FALSE)
    ELSE linearInterpolation(0, 120 * n, 0, 50, sum, FALSE)

-----------------------------------------------------------------------------
(* getLocalAirQuality: reading the document *)

\* the configured IDs hold id
idListed(id) == \E i \in 1..numSensors : sensorIDs[i] = id

\* useThisSensor for a record of a top-level array
useArrayRecord(r) ==
    /\ containsKey(r, "ID") \/ containsKey(r, "SensorId")
    /\ \/ numSensors = 0
       \/ /\ numSensors > 0
          /\ idListed(asNumber(IF containsKey(r, "ID") THEN r["ID"]
                               ELSE r["SensorId"]))

\* useThisSensor for a record of the "results" array
useResultsRecord(r) ==
    \/ numSensors = 0
    \/ numSensors > 0 /\ containsKey(r, "ID") /\ idListed(asNumber(r["ID"]))

\* sumPm2p5 and validSensorCount after the records from i on: a used record
\* adds its "pm2.5_10minute", or else its "PM2_5Value", as<double>()
RECURSIVE sumRecords(_, _, _, _)
sumRecords(records, i, inResults, acc) ==
    IF i > Len(records) THEN acc
    ELSE LET r == records[i]
             use == IF inResults THEN useResultsRecord(r) ELSE useArrayRecord(r)
         IN sumRecords(records, i + 1, inResults,
                IF use /\ containsKey(r, "pm2.5_10minute")
                THEN [sum |-> acc.sum + asNumber(r["pm2.5_10minute"]),
                      count |-> acc.count + 1]
                ELSE IF use /\ containsKey(r, "PM2_5Value")
                THEN [sum |-> acc.sum + asNumber(r["PM2_5Value"]),
                      count |-> acc.count + 1]
                ELSE acc)

\* one value, counted once
single(x) == [sum |-> asNumber(x), count |-> 1]

\* sumPm2p5 and validSensorCount at the end of the chain of strategies
localReading(d) ==
    LET none == [sum |-> 0, count |-> 0]
        m == d.members
    IN IF containsKey(m, "pm2.5_aqi") THEN none
       ELSE IF containsKey(m, "pm2.5_10minute") THEN single(m["pm2.5_10minute"])
       ELSE IF d.shape = "array" THEN sumRecords(d.records, 1, FALSE, none)
       ELSE IF d.shape = "object"
       THEN IF d.hasResults THEN sumRecords(d.records, 1, TRUE, none)
            ELSE IF containsKey(m, "pm2.5_10minute") THEN single(m["pm2.5_10minute"])
            ELSE IF containsKey(m, "pm2_5_atm") THEN single(m["pm2_5_atm"])
            ELSE IF containsKey(m, "pm2.5") THEN single(m["pm2.5"])
            ELSE none
       ELSE none

\* currentAttemptAQI after the document is read, and whether reading it set
\* localSensorAvailable
extractLocal(d) ==
    LET r == localReading(d)
    IN IF containsKey(d.members, "pm2.5_aqi")
       THEN [aqi |-> asNumber(d.members["pm2.5_aqi"]), available |-> TRUE]
       ELSE IF r.count > 0
       THEN [aqi |-> RoundToInt(calculateAQIOfMean(r.sum, r.count)),
             available |-> TRUE]
       ELSE [aqi |-> NoData, available |-> FALSE]

-----------------------------------------------------------------------------
(* getAPIAirQuality: reading the document *)

\* pm25_10m_idx: the (0-based) index of the last "pm2.5_10minute" of
\* fields, -1 if there is none
RECURSIVE findColumn(_, _, _)
findColumn(fields, i, idx) ==
    IF i > Len(fields) THEN idx
    ELSE findColumn(fields, i + 1,
                    IF fields[i] = "pm2.5_10minute" THEN i - 1 ELSE idx)

\* (mutant) a negative value is added like any other
rowUsable_negativeKept(row, idx) ==
    /\ row.isArray
    /\ idx < Len(row.cells)
    /\ isNumber(row.cells[idx + 1])

\* the row passes the four tests of the loop over data
rowUsable(row, idx) ==
    /\ row.isArray
    /\ idx < Len(row.cells)
    /\ isNumber(row.cells[idx + 1])
    /\ asNumber(row.cells[idx + 1]) >= 0

\* totalPM25 and validSensorCount after the rows from i on
RECURSIVE sumRows(_, _, _, _)
sumRows(data, i, idx, acc) ==
    IF i > Len(data) THEN acc
    ELSE sumRows(data, i + 1, idx,
                 IF rowUsable(data[i], idx)
                 THEN [sum |-> acc.sum + asNumber(data[i].cells[idx + 1]),
                       count |-> acc.count + 1]
                 ELSE acc)

\* the way the HTTP-200 branch ends for a parsed document: one of the two
\* early returns, or the end of the function
apiExit(d) ==
    IF ~d.shapeOk THEN "badShape"
    ELSE IF findColumn(d.fields, 1, -1) = -1 THEN "noColumn"
    ELSE "end"

\* resultAQI for a parsed document
extractAPI(d) ==
    IF apiExit(d) # "end" THEN NoData
    ELSE LET r == sumRows(d.data, 1, findColumn(d.fields, 1, -1),
                          [sum |-> 0, count |-> 0])
         IN IF r.count > 0
            THEN RoundToInt(calculateAQIOfMean(r.sum, r.count))
            ELSE NoData

-----------------------------------------------------------------------------
(* The pollers, step by step: inputs *)

\* documents the local sensor may answer with
LocalDocs ==
    << ObjectDoc("pm2.5_aqi" :> Num(77)),
       ObjectDoc("pm2.5_aqi" :> Num(-5)),
       ObjectDoc("pm2.5_aqi" :> Null),
       ObjectDoc(("pm2.5_aqi" :> Num(77)) @@ ("pm2.5_10minute" :> Num(354))),
       ObjectDoc("pm2.5_10minute" :> Num(100)),
       ObjectDoc("pm2.5_10minute" :> Text),
       ObjectDoc("pm2.5" :> Num(354)),
       ObjectDoc("pm2_5_atm" :> Num(0)),
       ObjectDoc("uptime" :> Num(5)),
       ArrayDoc(<< ("ID" :> Num(101)) @@ ("pm2.5_10minute" :> Num(100)),
                   ("ID" :> Num(102)) @@ ("pm2.5_10minute" :> Num(-50)),
                   ("ID" :> Num(999)) @@ ("PM2_5Value" :> Num(200)) >>),
       ArrayDoc(<< ("SensorId" :> Num(101)) @@ ("PM2_5Value" :> Null) >>),
       ArrayDoc(<< "pm2.5_10minute" :> Num(100) >>),
       ResultsDoc(NoMembers,
                  << ("ID" :> Num(101)) @@ ("pm2.5_10minute" :> Num(354)) >>),
       ResultsDoc("pm2.5_10minute" :> Num(100),
                  << ("ID" :> Num(101)) @@ ("pm2.5_10minute" :> Num(354)) >>),
       ScalarDoc,
       ResultsDoc("pm2.5" :> Num(354),
                  << ("ID" :> Num(101)) @@ ("pm2.5_10minute" :> Num(100)) >>),
       ArrayDoc(<< ("ID" :> Num(101)) @@ ("pm2.5_10minute" :> Num(-50)) >>) >>

\* the fields array of a well-formed API answer
ApiFields == <<"sensor_index", "pm2.5_10minute">>

\* documents the API may answer with
ApiDocs ==
    << ApiDoc(FALSE, <<>>, <<>>),
       ApiDoc(TRUE, <<"sensor_index">>, << Row(<<Num(101)>>) >>),
       ApiDoc(TRUE, ApiFields, << Row(<<Num(101), Num(354)>>) >>),
       ApiDoc(TRUE, ApiFields,
              << Row(<<Num(101), Num(100)>>), Row(<<Num(102), Num(-50)>>),
                 Row(<<Num(103)>>), NotARow, Row(<<Num(104), Text>>),
                 Row(<<Num(105), Null>>), Row(<<Num(106), Num(120)>>) >>),
       ApiDoc(TRUE, ApiFields,
              << Row(<<Num(101), Num(-50)>>), Row(<<Num(102), Null>>) >>),
       ApiDoc(TRUE, ApiFields, <<>>),
       ApiDoc(TRUE, ApiFields, << Row(<<Num(101), Num(0)>>) >>) >>

\* what a request of the local poll may meet: a status other than success,
\* a body that does not parse, or a document
LocalAnswers == {"httpFail", "parseError", "document"}

\* what the body of an HTTP-200 API answer may be
ApiBodies == {"parseError", "document"}

\* the documents an answer of that kind may carry (0: none)
DocsOf(answer, docs) == IF answer = "document" THEN 1..Len(docs) ELSE {0}

-----------------------------------------------------------------------------
(* The pollers, step by step *)

NoNet ==
    [probes |-> 0, connects |-> 0, requests |-> 0, stops |-> 0,
     delays |-> 0, failed |-> 0]

\* the sensor fields no poll writes (localSensorAvailable is written)
pollKeeps == <<localServerIP, apiKey, numSensors, lastLocalCheckTime,
               lastApiCheckTime, currentAQI, clock, cycle, localAttemptAt,
               apiAttemptAt, localSuccessAt, bootVars, mathVars,
               timerVars>>

\* the functions whose call of getLocalAirQuality can be reached: updateAQI
\* under its first condition, forceInitialUpdate under isLocalConfigured();
\* "direct" is the function called on its own
LocalCallers ==
    {"direct"}
    \cup (IF \E now \in CallTimes : LocalDue(now) THEN {"updateAQI"} ELSE {})
    \cup (IF isLocalConfigured THEN {"forceInitialUpdate"} ELSE {})

\* the same for getAPIAirQuality: updateAQI under its second condition,
\* forceInitialUpdate under apiConfigured
ApiCallers ==
    {"direct"}
    \cup (IF \E now \in CallTimes, attemptedLocal, localSucceeded \in BOOLEAN :
                ApiDue(now, attemptedLocal, localSucceeded)
          THEN {"updateAQI"} ELSE {})
    \cup (IF apiConfigured THEN {"forceInitialUpdate"} ELSE {})

\* entry into a poll: no poll is running
PollBegin(op, caller, wifi) ==
    /\ pc \in {"idle", "returned"}
    /\ pollOp' = op
    /\ pollCaller' = caller
    /\ wifiConnected' = wifi
    /\ net' = NoNet
    /\ docId' = 0
    /\ attemptLog' = <<>>
    /\ connected' = FALSE
    /\ currentAttemptAQI' = NoData
    /\ UNCHANGED openConnections

\* (mutant) the loop makes one attempt more
LoopContinues_oneMore(a) == a <= MAX_LOCAL_CONNECTION_ATTEMPTS + 1

\* the condition of the retry loop
LoopContinues(a) == a <= MAX_LOCAL_CONNECTION_ATTEMPTS

\* where attempt a goes when it has failed: into the wait if it is not the
\* last one, else through ++attempt to the loop test
afterFailure(a) ==
    IF a < MAX_LOCAL_CONNECTION_ATTEMPTS THEN "delay"
    ELSE IF LoopContinues(a + 1) THEN "probe"
    ELSE "returned"

\* (mutant) the connection is attempted whatever the ping says
AfterProbe_ungated(pingOk, a) == "connect"

\* the gate: pingResult >= 0 goes on to the connection, the rest is a
\* failed attempt
AfterProbe(pingOk, a) == IF pingOk THEN "connect" ELSE afterFailure(a)

\* the poll variables after attempt a ended at `next`, a failure unless
\* next is "request"
AttemptEnds(next, event) ==
    /\ pc' = next
    /\ attempt' = IF next \in {"probe", "returned"} THEN attempt + 1 ELSE attempt
    /\ attemptLog' = IF next = "probe" THEN <<>> ELSE Append(attemptLog, event)
    /\ localSensorAvailable' = IF next = "returned" THEN FALSE
                               ELSE localSensorAvailable
    /\ pollResult' = NoData

\* int PurpleAirSensor::getLocalAirQuality(): entry and the early return
getLocalAirQuality_call ==
    \E caller \in LocalCallers, wifi \in BOOLEAN :
        /\ PollBegin("getLocalAirQuality", caller, wifi)
        /\ localSensorAvailable' = FALSE
        /\ pollResult' = NoData
        /\ IF ~isLocalConfigured
           THEN pc' = "returned" /\ attempt' = 0
           ELSE pc' = "probe" /\ attempt' = 1
        /\ UNCHANGED pollKeeps
        /\ UNCHANGED ventVars

\* WiFi.ping: without the network no ping succeeds
local_probe ==
    /\ pc = "probe"
    /\ \E pingOk \in (IF wifiConnected THEN BOOLEAN ELSE {FALSE}) :
        LET next == AfterProbe(pingOk, attempt)
        IN /\ net' = [net EXCEPT !.probes = @ + 1,
                                 !.failed = @ + (IF next = "connect" THEN 0 ELSE 1)]
           /\ AttemptEnds(next, IF pingOk THEN "probeOk" ELSE "probeFail")
    /\ UNCHANGED <<wifiConnected, pollOp, pollCaller, connected,
                   openConnections, docId, currentAttemptAQI>>
    /\ UNCHANGED pollKeeps
    /\ UNCHANGED ventVars

\* wifiClient.connect: without the network no connection opens
local_connect ==
    /\ pc = "connect"
    /\ \E ok \in (IF wifiConnected THEN BOOLEAN ELSE {FALSE}) :
        IF ok
        THEN /\ net' = [net EXCEPT !.connects = @ + 1]
             /\ connected' = TRUE
             /\ openConnections' = openConnections + 1
             /\ pc' = "request"
             /\ attemptLog' = Append(attemptLog, "connect")
             /\ UNCHANGED <<attempt, localSensorAvailable, pollResult>>
        ELSE /\ net' = [net EXCEPT !.connects = @ + 1, !.failed = @ + 1]
             /\ AttemptEnds(afterFailure(attempt), "connectFail")
             /\ UNCHANGED <<connected, openConnections>>
    /\ currentAttemptAQI' = NoData
    /\ UNCHANGED <<wifiConnected, pollOp, pollCaller, docId>>
    /\ UNCHANGED pollKeeps
    /\ UNCHANGED ventVars

\* localClient.get("/json"), deserializeJson and the reading of the document
local_request ==
    /\ pc = "request"
    /\ \E answer \in LocalAnswers :
        \E i \in DocsOf(answer, LocalDocs) :
            LET e == IF i # 0 THEN extractLocal(LocalDocs[i])
                     ELSE [aqi |-> NoData, available |-> FALSE]
            IN /\ docId' = i
               /\ currentAttemptAQI' = e.aqi
               /\ localSensorAvailable' = (e.available \/ localSensorAvailable)
               /\ attemptLog' = Append(attemptLog, answer)
    /\ net' = [net EXCEPT !.requests = @ + 1]
    /\ pc' = "stop"
    /\ UNCHANGED <<wifiConnected, pollOp, pollCaller, attempt, connected,
                   openConnections, pollResult>>
    /\ UNCHANGED pollKeeps
    /\ UNCHANGED ventVars

\* localClient.stop(), then the return of a successful attempt or the end
\* of a failed one
local_stop ==
    /\ pc = "stop"
    /\ connected' = FALSE
    /\ openConnections' = openConnections - (IF connected THEN 1 ELSE 0)
    /\ IF currentAttemptAQI >= 0
       THEN /\ net' = [net EXCEPT !.stops = @ + 1]
            /\ pc' = "returned"
            /\ pollResult' = currentAttemptAQI
            /\ localSensorAvailable' = TRUE
            /\ attemptLog' = Append(attemptLog, "stop")
            /\ UNCHANGED attempt
       ELSE /\ net' = [net EXCEPT !.stops = @ + 1, !.failed = @ + 1]
            /\ AttemptEnds(afterFailure(attempt), "stop")
    /\ UNCHANGED <<wifiConnected, pollOp, pollCaller, docId, currentAttemptAQI>>
    /\ UNCHANGED pollKeeps
    /\ UNCHANGED ventVars

\* the wait of LOCAL_RETRY_DELAY_MS, then ++attempt and the loop test
local_delay ==
    /\ pc = "delay"
    /\ net' = [net EXCEPT !.delays = @ + 1]
    /\ attempt' = attempt + 1
    /\ attemptLog' = <<"delay">>
    /\ pc' = IF LoopContinues(attempt + 1) THEN "probe" ELSE "returned"
    /\ localSensorAvailable' = IF LoopContinues(attempt + 1)
                               THEN localSensorAvailable ELSE FALSE
    /\ UNCHANGED <<wifiConnected, pollOp, pollCaller, connected,
                   openConnections, docId, currentAttemptAQI, pollResult>>
    /\ UNCHANGED pollKeeps
    /\ UNCHANGED ventVars

\* (mutant) only the key is tested before the request
getAPIAirQuality_proceeds_keyOnly == apiKey # NullPtr /\ apiKey # ""

\* getAPIAirQuality goes past its two early returns.  The request path of
\* the IDs of ConfiguredIDs fits apiPathBuffer, so the two returns of the
\* path loop are not taken.
getAPIAirQuality_proceeds ==
    /\ ~(apiKey = NullPtr \/ apiKey = "")
    /\ ~(numSensors = 0)

\* int PurpleAirSensor::getAPIAirQuality(): entry and the early returns
getAPIAirQuality_call ==
    \E caller \in ApiCallers, wifi \in BOOLEAN :
        /\ PollBegin("getAPIAirQuality", caller, wifi)
        /\ pollResult' = NoData
        /\ attempt' = 0
        /\ pc' = IF getAPIAirQuality_proceeds THEN "apiRequest" ELSE "returned"
        /\ UNCHANGED localSensorAvailable
        /\ UNCHANGED pollKeeps
        /\ UNCHANGED ventVars

\* (mutant) a failed request is made again
AfterApiResponse_retry(ok200) == IF ok200 THEN "apiParse" ELSE "apiRequest"

\* httpCode == 200 reads the body, anything else ends the poll
AfterApiResponse(ok200) == IF ok200 THEN "apiParse" ELSE "apiStop"

\* apiClient.get(...) and responseStatusCode(): the connection fails (always
\* so without the network), or the request is sent and answered with 200 or
\* with something else
api_request ==
    /\ pc = "apiRequest"
    /\ \E answer \in (IF wifiConnected
                      THEN {"connectFail", "status200", "statusOther"}
                      ELSE {"connectFail"}) :
        /\ net' = [net EXCEPT !.connects = @ + 1,
                              !.requests = @ + (IF answer = "connectFail" THEN 0 ELSE 1)]
        /\ connected' = (answer # "connectFail")
        /\ openConnections' = openConnections + (IF answer = "connectFail" THEN 0 ELSE 1)
        /\ attemptLog' = Append(attemptLog, answer)
        /\ pc' = AfterApiResponse(answer = "status200")
    /\ UNCHANGED <<wifiConnected, pollOp, pollCaller, attempt, docId,
                   currentAttemptAQI, pollResult, localSensorAvailable>>
    /\ UNCHANGED pollKeeps
    /\ UNCHANGED ventVars

\* deserializeJson and the reading of the document
api_parse ==
    /\ pc = "apiParse"
    /\ \E body \in ApiBodies :
        \E i \in DocsOf(body, ApiDocs) :
            /\ docId' = i
            /\ currentAttemptAQI' = IF i # 0 THEN extractAPI(ApiDocs[i]) ELSE NoData
            /\ attemptLog' = Append(attemptLog,
                                    IF i # 0 THEN apiExit(ApiDocs[i]) ELSE body)
    /\ pc' = "apiStop"
    /\ UNCHANGED <<wifiConnected, pollOp, pollCaller, attempt, connected,
                   openConnections, net, pollResult, localSensorAvailable>>
    /\ UNCHANGED pollKeeps
    /\ UNCHANGED ventVars

\* (mutant) the return after a parse error forgets the client
StopOnExit_notAfterParseError(exit) == exit # "parseError"

\* apiClient.stop() is called on the way out: before each of the three
\* early returns of the HTTP-200 branch and at the end of the function
StopOnExit(exit) == exit \in {"parseError", "badShape", "noColumn", "end"}

\* the way out taken: the last thing the poll did
ExitTaken ==
    IF /\ Len(attemptLog) > 0
       /\ attemptLog[Len(attemptLog)] \in {"parseError", "badShape", "noColumn"}
    THEN attemptLog[Len(attemptLog)]
    ELSE "end"

\* apiClient.stop() and the return
api_stop ==
    /\ pc = "apiStop"
    /\ IF StopOnExit(ExitTaken)
       THEN /\ connected' = FALSE
            /\ openConnections' = openConnections - (IF connected THEN 1 ELSE 0)
            /\ net' = [net EXCEPT !.stops = @ + 1]
       ELSE UNCHANGED <<connected, openConnections, net>>
    /\ pc' = "returned"
    /\ pollResult' = currentAttemptAQI
    /\ UNCHANGED <<wifiConnected, pollOp, pollCaller, attempt, attemptLog,
                   docId, currentAttemptAQI, localSensorAvailable>>
    /\ UNCHANGED pollKeeps
    /\ UNCHANGED ventVars

-----------------------------------------------------------------------------
(* VentilationControl *)

\* (mutant) the disable threshold itself does not switch off
getVentilationState_strictDisable(switchState, currentState, airQuality) ==
    IF switchState = "ON" THEN TRUE
    ELSE IF switchState = "OFF" THEN FALSE
    ELSE IF airQuality = -1 THEN currentState
    ELSE IF airQuality < ENABLE_THRESHOLD THEN TRUE
    ELSE IF airQuality > DISABLE_THRESHOLD THEN FALSE
    ELSE currentState

\* (mutant) no guard for the unknown AQI: -1 is compared with the thresholds
getVentilationState_noUnknownGuard(switchState, currentState, airQuality) ==
    IF switchState = "ON" THEN TRUE
    ELSE IF switchState = "OFF" THEN FALSE
    ELSE IF airQuality < ENABLE_THRESHOLD THEN TRUE
    ELSE IF airQuality >= DISABLE_THRESHOLD THEN FALSE
    ELSE currentState

\* (mutant) the AQI is looked at before the switch
getVentilationState_aqiFirst(switchState, currentState, airQuality) ==
    IF airQuality # -1 /\ airQuality < ENABLE_THRESHOLD THEN TRUE
    ELSE IF airQuality >= DISABLE_THRESHOLD THEN FALSE
    ELSE IF switchState = "ON" THEN TRUE
    ELSE IF switchState = "OFF" THEN FALSE
    ELSE currentState

\* VentilationControl::getVentilationState(switchState, currentState, airQuality)
getVentilationState(switchState, currentState, airQuality) ==
    IF switchState = "ON" THEN TRUE
    ELSE IF switchState = "OFF" THEN FALSE
    ELSE IF airQuality = -1 THEN currentState
    ELSE IF airQuality < ENABLE_THRESHOLD THEN TRUE
    ELSE IF airQuality >= DISABLE_THRESHOLD THEN FALSE
    ELSE currentState

\* VentilationControl::setRelays: the indicator colour and the two relays
setRelays(ventilate) ==
    /\ led' = (IF ventilate THEN VENTILATION_ON ELSE VENTILATION_OFF)
    /\ relay1' = ventilate
    /\ relay2' = ventilate

\* the record of a call on the controller
\* (before: ventilationState when the call was made; previousSwitch: the
\* switch position of the update before, "none" if there was none)
VentCall(op, switchState, airQuality) ==
    [op |-> op, switchState |-> switchState, airQuality |-> airQuality,
     before |-> ventilationState,
     previousSwitch |-> IF ventCall.op = "update" THEN ventCall.switchState
                        ELSE ventCall.previousSwitch]

\* the hysteresis example of the specification: AQI 100, 125, 135, 125 with
\* the switch at Auto, from the initial state
HysteresisExample == <<100, 125, 135, 125>>

\* hystStep counts the updates made since construction while they are
\* exactly the example's first updates; NoData once they are not
HystStepAfter(switchState, airQuality) ==
    IF /\ hystStep # NoData
       /\ hystStep < Len(HysteresisExample)
       /\ switchState = "PURPLEAIR"
       /\ airQuality = HysteresisExample[hystStep + 1]
    THEN hystStep + 1
    ELSE NoData

\* the value update() stores in ventilationState
UpdatedState(switchState, airQuality) ==
    getVentilationState(switchState, ventilationState, airQuality)

\* VentilationControl::update
VentilationControl_update ==
    \E switchState \in SwitchState, airQuality \in AqiInputs :
        /\ ventilationState' = UpdatedState(switchState, airQuality)
        /\ setRelays(ventilationState')
        /\ ventCall' = VentCall("update", switchState, airQuality)
        /\ hystStep' = HystStepAfter(switchState, airQuality)
        /\ UNCHANGED pinsConfigured
        /\ UNCHANGED sensorVars
        /\ UNCHANGED <<pollVars, bootVars, mathVars, timerVars>>

\* (mutant) begin puts the controller back into its initial state
BeginResets ==
    /\ ventilationState' = TRUE
    /\ UNCHANGED <<relay1, relay2, led>>

\* the fields VentilationControl::begin leaves as they are
BeginKeeps == UNCHANGED <<ventilationState, relay1, relay2, led>>

\* VentilationControl::begin: pin modes only
VentilationControl_begin ==
    /\ pinsConfigured' = TRUE
    /\ BeginKeeps
    /\ ventCall' = VentCall("begin", "PURPLEAIR", NoData)
    /\ UNCHANGED hystStep
    /\ UNCHANGED sensorVars
    /\ UNCHANGED <<pollVars, bootVars, mathVars, timerVars>>

\* VentilationControl::getVentilationState() const
VentilationControl_getVentilationState ==
    /\ ventCall' = VentCall("get", "PURPLEAIR", NoData)
    /\ UNCHANGED <<ventilationState, relay1, relay2, led, pinsConfigured, hystStep>>
    /\ UNCHANGED sensorVars
    /\ UNCHANGED <<pollVars, bootVars, mathVars, timerVars>>

-----------------------------------------------------------------------------
(* AQI derivation: calls *)

\* the concentrations calculateAQI is called with, in tenths of ug/m3: every
\* value of the lower bands, the edges of the upper bands, and a value far
\* above the scale
Concentrations ==
    (-30..600)
        \cup UNION { {b - 1, b, b + 1} : b \in {1505, 2505, 3505, 5004} }
        \cup {MaxConcentration}

\* the arguments linearInterpolation is called with: an interval cLow <=
\* cHigh, two index values, a query point inside, on and outside the interval
InterpolationEnds == {0, 10, 20}
InterpolationIndices == {0, 50, 100}
InterpolationPoints == {-5, 0, 5, 10, 15, 20, 25}

NoMathCall ==
    [op |-> "none", cLow |-> 0, cHigh |-> 0, iLow |-> 0, iHigh |-> 0,
     pointX |-> 0, trim |-> FALSE, result |-> <<0, 1>>]

\* calculateAQI(pm2p5); the functions keep no state, so one call is followed
\* from construction
calculateAQI_call ==
    /\ mathCall = NoMathCall
    /\ \E pm2p5 \in Concentrations :
        mathCall' = [NoMathCall EXCEPT !.op = "calculateAQI",
                                       !.pointX = pm2p5,
                                       !.result = calculateAQI(pm2p5)]
    /\ UNCHANGED <<sensorVars, ventVars, pollVars, bootVars, timerVars>>

\* linearInterpolation(cLow, cHigh, iLow, iHigh, pointX, trim)
linearInterpolation_call ==
    /\ mathCall = NoMathCall
    /\ \E cLow \in InterpolationEnds, cHigh \in InterpolationEnds,
          iLow \in InterpolationIndices, iHigh \in InterpolationIndices,
          pointX \in InterpolationPoints, trim \in BOOLEAN :
        /\ cLow <= cHigh
        /\ mathCall' = [op |-> "linearInterpolation", cLow |-> cLow,
                        cHigh |-> cHigh, iLow |-> iLow, iHigh |-> iHigh,
                        pointX |-> pointX, trim |-> trim,
                        result |-> linearInterpolation(cLow, cHigh, iLow,
                                                       iHigh, pointX, trim)]
    /\ UNCHANGED <<sensorVars, ventVars, pollVars, bootVars, timerVars>>

-----------------------------------------------------------------------------
(* The thread of control from reset on: begin(), then updateAQI and the *)
(* waits of its local poll, as the calls that keep the watchdog fed      *)

\* the thread makes the call c
Calls(c) == calls' = <<calls[2], c>>

\* the statements that leave the record of calls and the waits alone
Passes == UNCHANGED <<calls, sleep>>

bootKeeps == <<sensorVars, ventVars, pollVars, mathVars, timerVars>>

\* the wait before the next connection attempt slept in one call
SleepOf_single(at) ==
    CASE at = "attemptDelay" -> 500
      [] at = "backoffDelay" -> WIFI_CONNECT_RETRY_DELAY_MS
      [] at = "retryDelay" -> 50

\* the argument of delay() in each of the wait loops, in ms
SleepOf(at) ==
    CASE at = "attemptDelay" -> 500
      [] at = "backoffDelay" -> 100
      [] at = "retryDelay" -> 50

\* wdt_reset() at the statement from, the thread going on to the statement to
WdtReset(from, to) ==
    /\ threadAt = from
    /\ threadAt' = to
    /\ Calls("wdt_reset")
    /\ UNCHANGED <<wifiStatus, waited, sleep, retries>>
    /\ UNCHANGED bootKeeps

\* delay(SleepOf(from)) at the statement from, inside a wait loop: millis()
\* advances by the time slept
Delay(from, to) ==
    /\ threadAt = from
    /\ threadAt' = to
    /\ Calls("delay")
    /\ sleep' = SleepOf(from)
    /\ waited' = waited + SleepOf(from)
    /\ UNCHANGED <<wifiStatus, retries>>
    /\ UNCHANGED bootKeeps

\* a test at the statement from that calls nothing
Branch(from, to) ==
    /\ threadAt = from
    /\ threadAt' = to
    /\ Passes
    /\ UNCHANGED <<wifiStatus, waited, retries>>
    /\ UNCHANGED bootKeeps

\* the WiFi module associates or loses the network on its own
wifi_status ==
    /\ wifiStatus' = IF wifiStatus = "WL_CONNECTED" THEN "WL_IDLE_STATUS"
                     ELSE "WL_CONNECTED"
    /\ UNCHANGED <<threadAt, waited, calls, sleep, retries>>
    /\ UNCHANGED bootKeeps

\* setup() calls begin()
begin_call == Branch("reset", "outer")

\* while (WiFi.status() != WL_CONNECTED): begin() returns when the test fails
begin_outer ==
    Branch("outer", IF wifiStatus # "WL_CONNECTED" THEN "wifiBegin" ELSE "loop")

\* WiFi.begin(SECRET_SSID, SECRET_PASS); startAttemptTime = millis()
begin_wifiBegin ==
    /\ threadAt = "wifiBegin"
    /\ threadAt' = "attempt"
    /\ Calls("WiFi.begin")
    /\ waited' = 0
    /\ UNCHANGED <<wifiStatus, sleep, retries>>
    /\ UNCHANGED bootKeeps

\* the test of the inner loop
begin_attempt ==
    Branch("attempt",
           IF wifiStatus # "WL_CONNECTED"
              /\ waited < WIFI_CONNECT_ATTEMPT_TIMEOUT_MS
           THEN "attemptReset" ELSE "attemptEnd")

begin_attemptReset == WdtReset("attemptReset", "attemptDelay")

begin_attemptDelay == Delay("attemptDelay", "attempt")

\* if (WiFi.status() != WL_CONNECTED) after the inner loop;
\* retryDelayStart = millis()
begin_attemptEnd ==
    /\ threadAt = "attemptEnd"
    /\ threadAt' = IF wifiStatus # "WL_CONNECTED" THEN "backoff"
                   ELSE "outerReset"
    /\ waited' = IF wifiStatus # "WL_CONNECTED" THEN 0 ELSE waited
    /\ Passes
    /\ UNCHANGED <<wifiStatus, retries>>
    /\ UNCHANGED bootKeeps

\* begin() giving up after the wait
begin_backoff_givesUp ==
    Branch("backoff",
           IF waited < WIFI_CONNECT_RETRY_DELAY_MS THEN "backoffReset"
           ELSE "loop")

\* the test of the wait before the next attempt
begin_backoff ==
    Branch("backoff",
           IF waited < WIFI_CONNECT_RETRY_DELAY_MS THEN "backoffReset"
           ELSE "outerReset")

begin_backoffReset == WdtReset("backoffReset", "backoffDelay")

begin_backoffDelay == Delay("backoffDelay", "backoff")

\* wdt_reset() at the end of the body of the outer loop
begin_outerReset == WdtReset("outerReset", "outer")

\* loop() calls updateAQI; its first condition, the timer left open
updateAQI_localTest ==
    /\ threadAt = "loop"
    /\ \E due \in BOOLEAN :
        threadAt' = IF isLocalConfigured /\ due THEN "localResetBefore"
                    ELSE IF isLocalConfigured THEN "loop"
                    ELSE "apiTest"
    /\ Passes
    /\ UNCHANGED <<wifiStatus, waited, retries>>
    /\ UNCHANGED bootKeeps

updateAQI_localResetBefore == WdtReset("localResetBefore", "localCall")

\* fetchedAQI = getLocalAirQuality(): the call
updateAQI_callsLocal ==
    /\ threadAt = "localCall"
    /\ threadAt' = "localPoll"
    /\ Calls("getLocalAirQuality")
    /\ retries' = 0
    /\ UNCHANGED <<wifiStatus, waited, sleep>>
    /\ UNCHANGED bootKeeps

\* an attempt of the poll fails and is not the last: delayStart = millis()
local_attemptFails ==
    /\ threadAt = "localPoll"
    /\ retries + 1 < MAX_LOCAL_CONNECTION_ATTEMPTS
    /\ threadAt' = "retry"
    /\ retries' = retries + 1
    /\ waited' = 0
    /\ Passes
    /\ UNCHANGED wifiStatus
    /\ UNCHANGED bootKeeps

\* the test of the wait before the next attempt
local_retry ==
    Branch("retry",
           IF waited < LOCAL_RETRY_DELAY_MS THEN "retryReset" ELSE "localPoll")

local_retryReset == WdtReset("retryReset", "retryDelay")

local_retryDelay == Delay("retryDelay", "retry")

\* the poll returns, from an attempt that succeeded or from the last one
updateAQI_localReturns ==
    /\ threadAt = "localPoll"
    /\ threadAt' = "localResetAfter"
    /\ Calls("return getLocalAirQuality")
    /\ UNCHANGED <<wifiStatus, waited, sleep, retries>>
    /\ UNCHANGED bootKeeps

updateAQI_localResetAfter == WdtReset("localResetAfter", "localResult")

\* if (fetchedAQI >= 0) return updated; otherwise on to the API condition
updateAQI_localResult ==
    /\ threadAt = "localResult"
    /\ \E localSucceeded \in BOOLEAN :
        threadAt' = IF localSucceeded THEN "loop" ELSE "apiTest"
    /\ Passes
    /\ UNCHANGED <<wifiStatus, waited, retries>>
    /\ UNCHANGED bootKeeps

\* the condition of the API poll, the timer left open
updateAQI_apiTest ==
    /\ threadAt = "apiTest"
    /\ \E due \in BOOLEAN :
        threadAt' = IF apiConfigured /\ due THEN "apiResetBefore" ELSE "loop"
    /\ Passes
    /\ UNCHANGED <<wifiStatus, waited, retries>>
    /\ UNCHANGED bootKeeps

updateAQI_apiResetBefore == WdtReset("apiResetBefore", "apiCall")

\* fetchedAQI = getAPIAirQuality(): the call, and its return
updateAQI_callsApi ==
    /\ threadAt = "apiCall"
    /\ threadAt' = "apiPoll"
    /\ Calls("getAPIAirQuality")
    /\ UNCHANGED <<wifiStatus, waited, sleep, retries>>
    /\ UNCHANGED bootKeeps

updateAQI_apiReturns ==
    /\ threadAt = "apiPoll"
    /\ threadAt' = "apiResetAfter"
    /\ Calls("return getAPIAirQuality")
    /\ UNCHANGED <<wifiStatus, waited, sleep, retries>>
    /\ UNCHANGED bootKeeps

updateAQI_apiResetAfter == WdtReset("apiResetAfter", "loop")

\* one statement of begin()
begin_step ==
    \/ begin_call
    \/ begin_outer
    \/ begin_wifiBegin
    \/ begin_attempt
    \/ begin_attemptReset
    \/ begin_attemptDelay
    \/ begin_attemptEnd
    \/ begin_backoff
    \/ begin_backoffReset
    \/ begin_backoffDelay
    \/ begin_outerReset

-----------------------------------------------------------------------------
(* Construction *)

\* VentilationControl::VentilationControl() : ventilationState(true)
InitialVentilationState == TRUE

NoCycle ==
    [op |-> "new",
     attemptedLocal |-> FALSE, attemptedApi |-> FALSE,
     localResult |-> NoData, apiResult |-> NoData, updated |-> FALSE,
     apiTimerDue |-> FALSE, localGap |-> NoData, apiGap |-> NoData,
     prev |-> [op |-> "new", attemptedLocal |-> FALSE, attemptedApi |-> FALSE]]

SensorInit ==
    /\ localServerIP \in LocalServerIPs
    /\ apiKey \in ApiKeys
    /\ numSensors \in NumSensorsChoices
    /\ lastLocalCheckTime = 0
    /\ lastApiCheckTime = 0
    /\ currentAQI = -1
    /\ localSensorAvailable = FALSE
    /\ clock = 0
    /\ cycle = NoCycle
    /\ localAttemptAt = NoData
    /\ apiAttemptAt = NoData
    /\ localSuccessAt = NoData

\* the outputs are not written before the first update: pins are low and
\* the indicator is dark after reset
VentInit ==
    /\ ventilationState = InitialVentilationState
    /\ relay1 = FALSE
    /\ relay2 = FALSE
    /\ led = <<0, 0, 0>>
    /\ pinsConfigured = FALSE
    /\ ventCall = [op |-> "new", switchState |-> "PURPLEAIR", airQuality |-> NoData,
                   before |-> InitialVentilationState,
                   previousSwitch |-> "none"]
    /\ hystStep = 0

\* no poll is running
PollInit ==
    /\ wifiConnected = TRUE
    /\ pollOp = "none"
    /\ pollCaller = "none"
    /\ pc = "idle"
    /\ attempt = 0
    /\ attemptLog = <<>>
    /\ connected = FALSE
    /\ openConnections = 0
    /\ net = NoNet
    /\ docId = 0
    /\ currentAttemptAQI = NoData
    /\ pollResult = NoData

\* after reset: WiFi is not connected, nothing has been called
BootInit ==
    /\ wifiStatus = "WL_IDLE_STATUS"
    /\ threadAt = "reset"
    /\ waited = 0
    /\ calls = <<"none", "none">>
    /\ sleep = 0
    /\ retries = 0

MathInit == mathCall = NoMathCall

\* the stamps are written by the constructor, at time 0
TimerInit ==
    /\ trueElapsed = [calls |-> 0, local |-> 0, api |-> 0,
                      localAtCall |-> NoData, apiAtCall |-> NoData]
    /\ timerCall = NoTimerCall

Init == SensorInit /\ VentInit /\ PollInit /\ BootInit /\ MathInit /\ TimerInit

-----------------------------------------------------------------------------
(* Specifications *)

\* the acquisition scheduler: any sequence of calls on one sensor object,
\* with non-decreasing times
Next == updateAQI \/ forceInitialUpdate

Spec == Init /\ [][Next]_vars

\* the ventilation controller: any sequence of calls on one controller
VentNext ==
    \/ VentilationControl_begin
    \/ VentilationControl_update
    \/ VentilationControl_getVentilationState

VentSpec == Init /\ [][VentNext]_vars

\* updateAQI called again and again by loop(), the clock advancing by less
\* than a poll interval each time; loop() never stops calling
LoopSpec == Init /\ [][updateAQI_loop]_vars /\ WF_vars(updateAQI_loop)

\* updateAQI and the timing getters on a clock that wraps
WrapNext ==
    \/ updateAQI_wrapped
    \/ getTimeUntilNextLocalCheck_call
    \/ getTimeUntilNextApiCheck_call

WrapSpec == Init /\ [][WrapNext]_vars

\* the two pollers: any sequence of polls of one sensor object, each run
\* step by step to its return
PollNext ==
    \/ getLocalAirQuality_call
    \/ local_probe
    \/ local_connect
    \/ local_request
    \/ local_stop
    \/ local_delay
    \/ getAPIAirQuality_call
    \/ api_request
    \/ api_parse
    \/ api_stop

PollSpec == Init /\ [][PollNext]_vars

\* the thread of control from reset on, WiFi changing as it will
BootNext ==
    \/ wifi_status
    \/ begin_call
    \/ begin_outer
    \/ begin_wifiBegin
    \/ begin_attempt
    \/ begin_attemptReset
    \/ begin_attemptDelay
    \/ begin_attemptEnd
    \/ begin_backoff
    \/ begin_backoffReset
    \/ begin_backoffDelay
    \/ begin_outerReset
    \/ updateAQI_localTest
    \/ updateAQI_localResetBefore
    \/ updateAQI_callsLocal
    \/ local_attemptFails
    \/ local_retry
    \/ local_retryReset
    \/ local_retryDelay
    \/ updateAQI_localReturns
    \/ updateAQI_localResetAfter
    \/ updateAQI_localResult
    \/ updateAQI_apiTest
    \/ updateAQI_apiResetBefore
    \/ updateAQI_callsApi
    \/ updateAQI_apiReturns
    \/ updateAQI_apiResetAfter

BootSpec == Init /\ [][BootNext]_vars

\* the processor never stops: a statement of begin() that can be executed
\* is executed
BootFairSpec == BootSpec /\ WF_vars(begin_step)

\* the AQI derivation: a call of either function
MathNext == calculateAQI_call \/ linearInterpolation_call

MathSpec == Init /\ [][MathNext]_vars

-----------------------------------------------------------------------------
(* Ventilation decision: C1 - C4, checked under VentSpec *)

\* the state the decision rule of the specification gives for a valid AQI
\* with the switch at Auto
HysteresisRule(before, airQuality) ==
    IF airQuality < ENABLE_THRESHOLD THEN TRUE
    ELSE IF airQuality >= DISABLE_THRESHOLD THEN FALSE
    ELSE before

\* the ventilation states the specification gives for HysteresisExample
HysteresisExpected == <<TRUE, TRUE, FALSE, FALSE>>

C2_UnknownKeeps ==
    ( /\ ventCall.op = "update"
      /\ ventCall.switchState = "PURPLEAIR"
      /\ ventCall.airQuality = -1 )
    => ventilationState = ventCall.before

\* Idle was forced by the switch at OFF, the switch went back to Auto, the
\* AQI is unknown, and the controller is still Idle
C2_Witness ==
    /\ ventCall.op = "update"
    /\ ventCall.switchState = "PURPLEAIR"
    /\ ventCall.airQuality = -1
    /\ ventCall.previousSwitch = "OFF"
    /\ ventCall.before = FALSE
    /\ ventilationState = FALSE

\* C3: whatever the state before and whatever the AQI, an update with the
\* switch at ON leaves Ventilating and one with the switch at OFF leaves
\* Idle.
C3_Override ==
    ventCall.op = "update"
    => /\ ventCall.switchState = "ON" => ventilationState = TRUE
       /\ ventCall.switchState = "OFF" => ventilationState = FALSE

\* the switch at OFF stopped a ventilating controller although the AQI is 0
C3_Witness ==
    /\ ventCall.op = "update"
    /\ ventCall.switchState = "OFF"
    /\ ventCall.airQuality = 0
    /\ ventCall.before = TRUE
    /\ ventilationState = FALSE

\* C4: a newly constructed controller is Ventilating, and begin() and the
\* getter leave the stored state as it was: only update changes it.
C4_OnlyUpdateChanges ==
    /\ ventCall.op = "new" => ventilationState = TRUE
    /\ ventCall.op \in {"begin", "get"} => ventilationState = ventCall.before

\* begin() was called on a controller that updates had made Idle, and it is
\* still Idle
C4_Witness ==
    /\ ventCall.op = "begin"
    /\ ventCall.previousSwitch # "none"
    /\ ventCall.before = FALSE
    /\ ventilationState = FALSE

-----------------------------------------------------------------------------
(* Acquisition scheduler: C5 - C10, checked under Spec *)

\* the latest call is an updateAQI
InUpdateAQI == cycle.op = "updateAQI"

\* C5: in an updateAQI cycle at time now whose local poll is made and returns
\* a valid AQI, no API poll is made, the AQI is adopted, and
\* lastLocalCheckTime and lastApiCheckTime both equal now afterwards.
C5_LocalFirst ==
    (InUpdateAQI /\ cycle.attemptedLocal /\ cycle.localResult >= 0)
    => /\ ~cycle.attemptedApi
       /\ currentAQI = cycle.localResult
       /\ lastLocalCheckTime = clock
       /\ lastApiCheckTime = clock

\* the local poll succeeded in a cycle in which the API was configured and
\* its timer was due: the API was left alone and its stamp advanced
C5_Witness ==
    /\ InUpdateAQI
    /\ cycle.attemptedLocal
    /\ cycle.localResult = 135
    /\ apiConfigured
    /\ cycle.apiTimerDue
    /\ ~cycle.attemptedApi
    /\ currentAQI = 135
    /\ lastApiCheckTime = clock

\* C6: an updateAQI that follows, within a source's minimum interval, an
\* updateAQI that polled that source, does not poll it again; and an updateAQI
\* made when no source is due polls nothing, returns false and leaves the
\* stamps and the held AQI as they were.
C6_Idempotent ==
    [][ cycle'.op = "updateAQI"
        => /\ ( /\ cycle.op = "updateAQI"
                /\ cycle.attemptedLocal
                /\ clock <= clock' /\ clock' < clock + LOCAL_SENSOR_DELAY )
              => ~cycle'.attemptedLocal
           /\ ( /\ cycle.op = "updateAQI"
                /\ cycle.attemptedApi
                /\ clock <= clock' /\ clock' < clock + PURPLE_AIR_DELAY )
              => ~cycle'.attemptedApi
           /\ ( /\ ~(isLocalConfigured
                     /\ clock' - lastLocalCheckTime >= LOCAL_SENSOR_DELAY)
                /\ ~(apiConfigured
                     /\ clock' - lastApiCheckTime >= PURPLE_AIR_DELAY) )
              => /\ ~cycle'.attemptedLocal
                 /\ ~cycle'.attemptedApi
                 /\ ~cycle'.updated
                 /\ lastLocalCheckTime' = lastLocalCheckTime
                 /\ lastApiCheckTime' = lastApiCheckTime
                 /\ currentAQI' = currentAQI
      ]_vars

\* an updateAQI polled the local source and failed, and the updateAQI made
\* half a local interval later polled nothing and returned false
C6_Witness ==
    /\ InUpdateAQI
    /\ cycle.prev.op = "updateAQI"
    /\ cycle.prev.attemptedLocal
    /\ isLocalConfigured
    /\ apiConfigured
    /\ clock - localAttemptAt = LOCAL_SENSOR_DELAY \div 2
    /\ ~cycle.attemptedLocal
    /\ ~cycle.attemptedApi
    /\ ~cycle.updated
    /\ currentAQI = NoData

\* C7: when an updateAQI polls the local source, the previous local poll
\* lies at least LOCAL_SENSOR_DELAY back, and when it polls the API, the
\* previous API poll lies at least PURPLE_AIR_DELAY back.
C7_MinimumInterval ==
    InUpdateAQI
    => /\ (cycle.attemptedLocal /\ cycle.localGap # NoData)
          => cycle.localGap >= LOCAL_SENSOR_DELAY
       /\ (cycle.attemptedApi /\ cycle.apiGap # NoData)
          => cycle.apiGap >= PURPLE_AIR_DELAY

\* two API polls by consecutive updateAQI calls, exactly one API interval
\* apart
C7_Witness ==
    /\ InUpdateAQI
    /\ cycle.prev.op = "updateAQI"
    /\ cycle.prev.attemptedApi
    /\ cycle.attemptedApi
    /\ cycle.apiGap = PURPLE_AIR_DELAY

\* C8: in a cycle whose local poll is made and fails, with the API
\* configured and now - lastApiCheckTime >= PURPLE_AIR_DELAY, the API is
\* polled in that cycle, lastApiCheckTime is now afterwards whether or not
\* the API poll succeeds, and a valid API AQI is adopted.
C8_FallbackAfterLocalFailure ==
    ( /\ InUpdateAQI
      /\ cycle.attemptedLocal /\ cycle.localResult < 0
      /\ apiConfigured /\ cycle.apiTimerDue )
    => /\ cycle.attemptedApi
       /\ lastApiCheckTime = clock
       /\ cycle.apiResult >= 0 => currentAQI = cycle.apiResult

\* the local poll failed and the API poll of the same cycle gave AQI 100
C8_Witness ==
    /\ InUpdateAQI
    /\ cycle.attemptedLocal /\ cycle.localResult < 0
    /\ cycle.attemptedApi /\ cycle.apiResult = 100
    /\ currentAQI = 100
    /\ lastApiCheckTime = clock

\* C9, as the specification states it: in a cycle that makes no local poll
\* (no local source configured, or a configured one not yet due), the API is
\* polled whenever it is configured and now - lastApiCheckTime >=
\* PURPLE_AIR_DELAY.
C9_AsStated ==
    ( /\ InUpdateAQI
      /\ ~cycle.attemptedLocal
      /\ apiConfigured /\ cycle.apiTimerDue )
    => cycle.attemptedApi

\* C9, amended: in a cycle with no local source configured, the API is
\* polled whenever it is configured and now - lastApiCheckTime >=
\* PURPLE_AIR_DELAY; in a cycle in which a configured local source is not
\* yet due, the API is not polled.
C9_SkippedLocal ==
    InUpdateAQI
    => /\ (~isLocalConfigured /\ apiConfigured /\ cycle.apiTimerDue)
          => cycle.attemptedApi
       /\ (isLocalConfigured /\ ~cycle.attemptedLocal)
          => ~cycle.attemptedApi

\* a configured local source was not yet due, the API was configured and
\* its timer was due, and the API was not polled
C9_Witness ==
    /\ InUpdateAQI
    /\ isLocalConfigured
    /\ ~cycle.attemptedLocal
    /\ apiConfigured
    /\ cycle.apiTimerDue
    /\ ~cycle.attemptedApi

\* no local source is configured and the API poll was made
C9_WitnessUnconfigured ==
    /\ InUpdateAQI
    /\ ~isLocalConfigured
    /\ cycle.apiTimerDue
    /\ cycle.attemptedApi
    /\ cycle.apiResult = 100

\* C10: if no poll made in an updateAQI cycle yields a valid AQI (none is
\* made, or each one fails), the held AQI after the cycle is the held AQI
\* before it.
C10_HeldAQIRetained ==
    [][ ( /\ cycle'.op = "updateAQI"
          /\ cycle'.localResult < 0
          /\ cycle'.apiResult < 0 )
        => currentAQI' = currentAQI ]_vars

\* both polls were made and failed, and the sensor still holds a valid AQI
C10_Witness ==
    /\ InUpdateAQI
    /\ cycle.attemptedLocal /\ cycle.localResult < 0
    /\ cycle.attemptedApi /\ cycle.apiResult < 0
    /\ ~cycle.updated
    /\ currentAQI >= 0

-----------------------------------------------------------------------------
(* Acquisition scheduler: C11 - C12, checked under Spec *)

\* C11: an updateAQI at time now that polls the local source leaves
\* lastLocalCheckTime = now, whether the poll succeeds or fails; an updateAQI
\* that does not poll the local source leaves lastLocalCheckTime as it was.
C11_LocalStampOnAttempt ==
    [][ cycle'.op = "updateAQI"
        => /\ cycle'.attemptedLocal => lastLocalCheckTime' = clock'
           /\ ~cycle'.attemptedLocal => lastLocalCheckTime' = lastLocalCheckTime
      ]_vars

\* a local poll failed, no API poll followed it, and the local stamp is the
\* time of the call
C11_Witness ==
    /\ InUpdateAQI
    /\ cycle.attemptedLocal /\ cycle.localResult < 0
    /\ ~cycle.attemptedApi
    /\ clock > 0
    /\ lastLocalCheckTime = clock
    /\ lastApiCheckTime # clock

\* C12: updateAQI returns true exactly when a poll it made returned a value
\* >= 0, and the held AQI is then that value; a fetched 0 is such a value.
C12_TrueIffValidPoll ==
    InUpdateAQI
    => /\ cycle.updated <=> (cycle.localResult >= 0 \/ cycle.apiResult >= 0)
       /\ cycle.localResult >= 0 => currentAQI = cycle.localResult
       /\ cycle.apiResult >= 0 => currentAQI = cycle.apiResult

\* a poll returned AQI 0 while the sensor held another valid AQI: the call
\* returned true and the sensor holds 0
C12_Witness ==
    /\ InUpdateAQI
    /\ cycle.attemptedLocal /\ cycle.localResult = 0
    /\ cycle.prev.op # "new"
    /\ cycle.updated
    /\ currentAQI = 0

-----------------------------------------------------------------------------
(* The pollers: C13 - C20, checked under PollSpec *)

\* the poll op has returned
Returned(op) == pollOp = op /\ pc = "returned"

\* the events of the log that call connect
ConnectEvents == {"connect", "connectFail"}

\* the record has a number under one of the PM2.5 names of a record
RecordHasNumber(r) ==
    \E key \in {"pm2.5_10minute", "PM2_5Value"} :
        containsKey(r, key) /\ isNumber(r[key])

\* the local document holds a number under a PM2.5 name, at the top level
\* or in a record, or a number >= 0 under "pm2.5_aqi"
LocalDocHasNumber(d) ==
    \/ /\ containsKey(d.members, "pm2.5_aqi")
       /\ isNumber(d.members["pm2.5_aqi"])
       /\ d.members["pm2.5_aqi"].v >= 0
    \/ \E key \in {"pm2.5_10minute", "pm2_5_atm", "pm2.5"} :
          containsKey(d.members, key) /\ isNumber(d.members[key])
    \/ \E i \in 1..Len(d.records) : RecordHasNumber(d.records[i])

\* the API document holds a number in some cell of some row
ApiDocHasNumber(d) ==
    \E i \in 1..Len(d.data) :
        \E j \in 1..Len(d.data[i].cells) : isNumber(d.data[i].cells[j])

\* C13: a poll returns a valid AQI (>= 0) only if the document it read
\* holds a numeric PM2.5 concentration or a numeric "pm2.5_aqi" >= 0; a
\* recognised field that is present but null or not a number never gives a
\* valid AQI.
C13_ValidOnlyFromNumber ==
    /\ (Returned("getLocalAirQuality") /\ pollResult >= 0)
       => docId # 0 /\ LocalDocHasNumber(LocalDocs[docId])
    /\ (Returned("getAPIAirQuality") /\ pollResult >= 0)
       => docId # 0 /\ ApiDocHasNumber(ApiDocs[docId])

\* C14: a local poll of a configured source makes at most
\* MAX_LOCAL_CONNECTION_ATTEMPTS attempts; no attempt follows one that read a
\* valid AQI, which is the value returned, all attempts before it having
\* failed; and the poll returns -1 exactly when
\* MAX_LOCAL_CONNECTION_ATTEMPTS attempts have failed.
C14_BoundedAttempts ==
    (pollOp = "getLocalAirQuality" /\ isLocalConfigured)
    => /\ net.probes <= MAX_LOCAL_CONNECTION_ATTEMPTS
       /\ net.failed <= net.probes
       /\ currentAttemptAQI >= 0 => pc \in {"stop", "returned"}
       /\ pc = "returned"
          => /\ pollResult >= 0
                => /\ pollResult = currentAttemptAQI
                   /\ net.probes = attempt
                   /\ net.failed = attempt - 1
             /\ pollResult < 0
                <=> net.failed = MAX_LOCAL_CONNECTION_ATTEMPTS
             /\ pollResult < 0 => pollResult = NoData

\* the first attempt failed, the second read AQI 77 and the poll returned
\* it without a third
C14_Witness ==
    /\ Returned("getLocalAirQuality")
    /\ attempt = 2
    /\ net.probes = 2
    /\ net.failed = 1
    /\ pollResult = 77

\* all three attempts failed, the last one after its request
C14_WitnessExhausted ==
    /\ Returned("getLocalAirQuality")
    /\ net.probes = MAX_LOCAL_CONNECTION_ATTEMPTS
    /\ net.failed = MAX_LOCAL_CONNECTION_ATTEMPTS
    /\ net.requests >= 1
    /\ pollResult = NoData

\* C15: in a local poll, a call of connect directly follows a successful
\* ping of the same attempt; an attempt whose ping failed ends there, with
\* no call of connect; and every attempt after the first begins after the
\* wait.
C15_ProbeBeforeConnect ==
    pollOp = "getLocalAirQuality"
    => /\ \A i \in 1..Len(attemptLog) :
            /\ attemptLog[i] \in ConnectEvents
               => i > 1 /\ attemptLog[i - 1] = "probeOk"
            /\ attemptLog[i] = "probeFail" => i = Len(attemptLog)
       /\ net.connects <= net.probes - (IF pc = "connect" THEN 1 ELSE 0)
       /\ net.probes <= net.delays + 1
       /\ (attempt > 1 /\ pc # "delay")
          => Len(attemptLog) >= 1 /\ attemptLog[1] = "delay"

\* the ping of the first attempt failed and no connection was tried; after
\* the wait the second attempt pinged and connected
C15_Witness ==
    /\ pollOp = "getLocalAirQuality"
    /\ attempt = 2
    /\ net.probes = 2
    /\ net.connects = 1
    /\ net.delays = 1
    /\ attemptLog = <<"delay", "probeOk", "connect">>
    /\ connected

\* C16: at most one connection is open at any time; none is open when a
\* poll has returned, whatever way it took, nor between the attempts of a
\* local poll.
C16_NoOpenConnection ==
    /\ openConnections <= 1
    /\ pc \in {"idle", "returned", "probe", "connect", "delay", "apiRequest"}
       => openConnections = 0 /\ ~connected

\* the API answered 200 with a body that does not parse; the poll returned
\* by the early return and the connection is closed
C16_Witness ==
    /\ Returned("getAPIAirQuality")
    /\ ExitTaken = "parseError"
    /\ net.connects = 1
    /\ net.stops = 1
    /\ openConnections = 0

\* a local poll opened and closed three connections, one after the other
C16_WitnessLocal ==
    /\ Returned("getLocalAirQuality")
    /\ net.connects = MAX_LOCAL_CONNECTION_ATTEMPTS
    /\ net.stops = MAX_LOCAL_CONNECTION_ATTEMPTS
    /\ openConnections = 0

\* C17: an API poll connects at most once and sends at most one request,
\* whatever the outcome.
C17_SingleApiRequest ==
    pollOp = "getAPIAirQuality"
    => /\ net.connects <= 1
       /\ net.requests <= 1
       /\ net.delays = 0

\* the API answered with a status other than 200 and the poll returned -1
\* after its one request
C17_Witness ==
    /\ Returned("getAPIAirQuality")
    /\ attemptLog = <<"statusOther">>
    /\ net.requests = 1
    /\ pollResult = NoData

\* C18: with a null or empty API key, or with no sensor ID, the API poll
\* returns -1 without a connection or a request, and it is not updateAQI
\* that called it.
C18_UnconfiguredApi ==
    ( /\ pollOp = "getAPIAirQuality"
      /\ apiKey = NullPtr \/ apiKey = "" \/ numSensors = 0 )
    => /\ pc = "returned"
       /\ pollResult = NoData
       /\ net.connects = 0
       /\ net.requests = 0
       /\ pollCaller # "updateAQI"

\* the key is set but the list of sensor IDs is empty
C18_Witness ==
    /\ Returned("getAPIAirQuality")
    /\ apiKey = "KEY"
    /\ numSensors = 0
    /\ pollCaller = "direct"
    /\ net = NoNet
    /\ pollResult = NoData

\* C19: a poll made while the network is not connected is stopped by a
\* connectivity check: it calls no connect, sends no request and returns -1.
C19_ConnectivityGuard ==
    (pollOp # "none" /\ ~wifiConnected)
    => /\ net.connects = 0
       /\ net.requests = 0
       /\ openConnections = 0
       /\ pc = "returned" => pollResult = NoData

\* the PM2.5 column of an API document, counted from 1 (0: not named)
ColumnOf(d) ==
    IF \E i \in 1..Len(d.fields) : d.fields[i] = "pm2.5_10minute"
    THEN CHOOSE i \in 1..Len(d.fields) :
            /\ d.fields[i] = "pm2.5_10minute"
            /\ \A j \in 1..Len(d.fields) : d.fields[j] = "pm2.5_10minute" => j <= i
    ELSE 0

\* the rows that are arrays, reach the column and hold a number >= 0 there
RowsCounted(d) ==
    {i \in 1..Len(d.data) :
        /\ d.data[i].isArray
        /\ Len(d.data[i].cells) >= ColumnOf(d)
        /\ d.data[i].cells[ColumnOf(d)].t = "num"
        /\ d.data[i].cells[ColumnOf(d)].v >= 0}

\* the sum of the column over the rows of S
RECURSIVE ColumnSum(_, _)
ColumnSum(d, S) ==
    IF S = {} THEN 0
    ELSE LET i == CHOOSE x \in S : TRUE
         IN d.data[i].cells[ColumnOf(d)].v + ColumnSum(d, S \ {i})

\* the AQI the specification gives for an HTTP-200 answer (document 0: the
\* body did not parse)
ApiExpected(i) ==
    LET d == ApiDocs[i]
    IN IF i # 0 /\ d.shapeOk /\ ColumnOf(d) # 0 /\ RowsCounted(d) # {}
       THEN RoundToInt(calculateAQIOfMean(ColumnSum(d, RowsCounted(d)),
                                          Cardinality(RowsCounted(d))))
       ELSE NoData

\* C20: an API poll answered with HTTP 200 returns the AQI of the mean of
\* the PM2.5 column over the rows that are arrays, reach the column and hold
\* a number >= 0 there, if fields names the column and there is such a row,
\* and -1 in every other case.
C20_ApiExtraction ==
    ( /\ Returned("getAPIAirQuality")
      /\ Len(attemptLog) >= 1 /\ attemptLog[1] = "status200" )
    => /\ pollResult = ApiExpected(docId)
       /\ pollResult >= 0 <=> ( /\ docId # 0
                                /\ ColumnOf(ApiDocs[docId]) # 0
                                /\ RowsCounted(ApiDocs[docId]) # {} )

\* seven rows, two of them counted (10.0 and 12.0 ug/m3): the AQI of
\* 11.0 ug/m3
C20_Witness ==
    /\ Returned("getAPIAirQuality")
    /\ docId = 4
    /\ Cardinality(RowsCounted(ApiDocs[docId])) = 2
    /\ Len(ApiDocs[docId].data) = 7
    /\ pollResult = 46

-----------------------------------------------------------------------------
(* The local extractor: C21 - C22, checked under PollSpec *)

\* the PM2.5 member a record is read by, as the record loops choose it
RecordValue(r) ==
    IF containsKey(r, "pm2.5_10minute") THEN r["pm2.5_10minute"]
    ELSE IF containsKey(r, "PM2_5Value") THEN r["PM2_5Value"]
    ELSE Null

\* the document is answered by the averaging of records
AveragesRecords(d) ==
    /\ ~containsKey(d.members, "pm2.5_aqi")
    /\ ~containsKey(d.members, "pm2.5_10minute")
    /\ d.shape = "array" \/ (d.shape = "object" /\ d.hasResults)

\* the records of the document that pass the sensor ID filter and hold a
\* PM2.5 value that is a number and not negative
RecordsKept(d) ==
    { i \in 1..Len(d.records) :
        /\ IF d.shape = "array" THEN useArrayRecord(d.records[i])
           ELSE useResultsRecord(d.records[i])
        /\ isNumber(RecordValue(d.records[i]))
        /\ asNumber(RecordValue(d.records[i])) >= 0 }

RECURSIVE SumKept(_, _)
SumKept(d, S) ==
    IF S = {} THEN 0
    ELSE LET i == CHOOSE j \in S : TRUE
         IN asNumber(RecordValue(d.records[i])) + SumKept(d, S \ {i})

\* the AQI of the mean of the records kept, no-data when none is
AverageExpected(d) ==
    IF RecordsKept(d) = {} THEN NoData
    ELSE RoundToInt(calculateAQIOfMean(SumKept(d, RecordsKept(d)),
                                       Cardinality(RecordsKept(d))))

\* C21: an attempt that averaged the records of a document yields the AQI
\* of the mean of the records whose PM2.5 value is a number and not
\* negative, and no-data when no such record remains.
C21_RecordsExcluded ==
    (pollOp = "getLocalAirQuality" /\ pc = "stop" /\ docId # 0
        /\ AveragesRecords(LocalDocs[docId]))
    => currentAttemptAQI = AverageExpected(LocalDocs[docId])

\* the names a single top-level PM2.5 value is read by
SinglePm2p5Fields == <<"pm2.5_10minute", "pm2_5_atm", "pm2.5">>

HasSingleField(d) ==
    \E i \in 1..Len(SinglePm2p5Fields) :
        containsKey(d.members, SinglePm2p5Fields[i])

\* the first of the single fields the document holds
SingleField(d) ==
    LET i == CHOOSE j \in 1..Len(SinglePm2p5Fields) :
                 /\ containsKey(d.members, SinglePm2p5Fields[j])
                 /\ \A k \in 1..(j - 1) :
                        ~containsKey(d.members, SinglePm2p5Fields[k])
    IN d.members[SinglePm2p5Fields[i]]

HasRecords(d) ==
    d.shape = "array" \/ (d.shape = "object" /\ d.hasResults)

\* the reading of the document when a direct AQI field wins over every
\* PM2.5 field and a single top-level field over the arrays of records
PriorityExpected(d) ==
    IF containsKey(d.members, "pm2.5_aqi")
    THEN asNumber(d.members["pm2.5_aqi"])
    ELSE IF HasSingleField(d)
    THEN RoundToInt(calculateAQIOfMean(asNumber(SingleField(d)), 1))
    ELSE IF HasRecords(d)
    THEN LET r == sumRecords(d.records, 1, d.shape # "array",
                             [sum |-> 0, count |-> 0])
         IN IF r.count > 0 THEN RoundToInt(calculateAQIOfMean(r.sum, r.count))
            ELSE NoData
    ELSE NoData

\* C22: an attempt reads the document in a fixed order of priority: the
\* direct AQI field before any PM2.5 field, a single top-level PM2.5 field
\* before the records of an array or of "results", and no-data when the
\* document has none of them.
C22_PriorityOrder ==
    (pollOp = "getLocalAirQuality" /\ pc = "stop" /\ docId # 0)
    => currentAttemptAQI = PriorityExpected(LocalDocs[docId])

\* the order holds of every document but one with "results" beside a
\* top-level "pm2_5_atm" or "pm2.5"
C22_OrderOfTheCode ==
    (pollOp = "getLocalAirQuality" /\ pc = "stop" /\ docId # 0
        /\ ~(LocalDocs[docId].hasResults
             /\ ~containsKey(LocalDocs[docId].members, "pm2.5_aqi")
             /\ ~containsKey(LocalDocs[docId].members, "pm2.5_10minute")))
    => currentAttemptAQI = PriorityExpected(LocalDocs[docId])

-----------------------------------------------------------------------------
(* AQI derivation: C23, C27, checked under MathSpec *)

\* the fraction q is the integer n; q is at most n; q is more than n
IsValue(q, n) == q[1] = n * q[2]
AtMost(q, n) == q[1] <= n * q[2]
Above(q, n) == q[1] > n * q[2]

\* two fractions are the same number
SameValue(q, r) == q[1] * r[2] = r[1] * q[2]

\* the upper ends (in tenths) and the top index values of the bands below
\* the top one
LowerBands == {<<120, 50>>, <<354, 100>>, <<554, 150>>, <<1504, 200>>,
               <<2504, 300>>, <<3504, 400>>}

\* C23: calculateAQI gives 0 at 0, 50 at 12.0, 100 at 35.4, 150 at 55.4 and
\* 0 below 0; its value never exceeds 500, the value at and past the upper
\* end of the top band being 500; a lower band is not clamped: just past
\* its upper end the value exceeds its top index value.
C23_CalculateAQI ==
    mathCall.op = "calculateAQI" =>
        LET pm2p5 == mathCall.pointX
            aqi == mathCall.result
        IN /\ aqi[2] > 0
           /\ pm2p5 = 0 => IsValue(aqi, 0)
           /\ pm2p5 = 120 => IsValue(aqi, 50)
           /\ pm2p5 = 354 => IsValue(aqi, 100)
           /\ pm2p5 = 554 => IsValue(aqi, 150)
           /\ pm2p5 < 0 => IsValue(aqi, 0)
           /\ AtMost(aqi, 500)
           /\ pm2p5 >= 5004 => IsValue(aqi, 500)
           /\ \A b \in LowerBands :
                  /\ pm2p5 = b[1] => IsValue(aqi, b[2])
                  /\ pm2p5 = b[1] + 1 => Above(aqi, b[2])

\* calculateAQI was called far above the scale and gave 500
C23_Witness ==
    /\ mathCall.op = "calculateAQI"
    /\ mathCall.pointX = MaxConcentration
    /\ IsValue(mathCall.result, 500)

\* calculateAQI was called just past the end of a lower band and gave more
\* than the top index value of the band
C23_WitnessUnclamped ==
    /\ mathCall.op = "calculateAQI"
    /\ mathCall.pointX = 355
    /\ Above(mathCall.result, 100)

\* the query point brought into [cLow, cHigh]
Clamped(c) ==
    IF c.pointX > c.cHigh THEN c.cHigh
    ELSE IF c.pointX < c.cLow THEN c.cLow
    ELSE c.pointX

\* C27: with the query point first clamped into [cLow, cHigh] when trim is
\* set, linearInterpolation returns iLow at cLow and iHigh at cHigh when the
\* endpoints differ; when they are equal it returns iHigh if the point is
\* >= cLow and iLow otherwise; it never divides by zero; and with trim set
\* its value is the value at the clamped point.
C27_LinearInterpolation ==
    mathCall.op = "linearInterpolation" =>
        LET c == mathCall
            x == IF c.trim THEN Clamped(c) ELSE c.pointX
        IN /\ c.result[2] # 0
           /\ (c.cLow # c.cHigh /\ x = c.cLow) => IsValue(c.result, c.iLow)
           /\ (c.cLow # c.cHigh /\ x = c.cHigh) => IsValue(c.result, c.iHigh)
           /\ (c.cLow = c.cHigh /\ x >= c.cLow) => IsValue(c.result, c.iHigh)
           /\ (c.cLow = c.cHigh /\ x < c.cLow) => IsValue(c.result, c.iLow)
           /\ c.trim =>
                  SameValue(c.result,
                            linearInterpolation(c.cLow, c.cHigh, c.iLow,
                                                c.iHigh, Clamped(c), FALSE))

\* a point below a proper interval was trimmed to its lower end
C27_Witness ==
    /\ mathCall.op = "linearInterpolation"
    /\ mathCall.trim
    /\ mathCall.cLow < mathCall.cHigh
    /\ mathCall.pointX < mathCall.cLow
    /\ mathCall.iLow # mathCall.iHigh
    /\ IsValue(mathCall.result, mathCall.iLow)

\* equal endpoints, an untrimmed point below them: iLow, nothing divided
C27_WitnessEqual ==
    /\ mathCall.op = "linearInterpolation"
    /\ ~mathCall.trim
    /\ mathCall.cLow = mathCall.cHigh
    /\ mathCall.pointX < mathCall.cLow
    /\ mathCall.iLow # mathCall.iHigh
    /\ IsValue(mathCall.result, mathCall.iLow)

\* equal endpoints, a trimmed point below them: the point is clamped to the
\* endpoints and the value is iHigh
C27_WitnessEqualTrimmed ==
    /\ mathCall.op = "linearInterpolation"
    /\ mathCall.trim
    /\ mathCall.cLow = mathCall.cHigh
    /\ mathCall.pointX < mathCall.cLow
    /\ mathCall.iLow # mathCall.iHigh
    /\ IsValue(mathCall.result, mathCall.iHigh)

-----------------------------------------------------------------------------
(* Watchdog and connectivity: C24 - C25, checked under BootSpec and *)
(* BootFairSpec                                                     *)

PollCalls == {"getLocalAirQuality", "getAPIAirQuality"}
PollReturns == {"return getLocalAirQuality", "return getAPIAirQuality"}

\* C24: every delay() of the connectivity loop and of the wait between the
\* attempts of the local poll sleeps half a second at most and directly
\* follows a wdt_reset(); in updateAQI the call of a poll directly follows a
\* wdt_reset() and the return of a poll is directly followed by one.
C24_WatchdogFed ==
    /\ calls[2] = "delay" => (calls[1] = "wdt_reset" /\ sleep <= 500)
    /\ calls[2] \in PollCalls => calls[1] = "wdt_reset"
    /\ calls[1] \in PollReturns => calls[2] = "wdt_reset"

\* the whole wait before the next connection attempt has been slept, in
\* increments each following a watchdog reset
C24_Witness ==
    /\ threadAt = "backoff"
    /\ waited = WIFI_CONNECT_RETRY_DELAY_MS
    /\ calls = <<"wdt_reset", "delay">>
    /\ sleep < WIFI_CONNECT_RETRY_DELAY_MS

\* a local poll that waited twice between its attempts has returned to
\* updateAQI, which reset the watchdog
C24_WitnessPoll ==
    /\ threadAt = "localResult"
    /\ retries = MAX_LOCAL_CONNECTION_ATTEMPTS - 1
    /\ calls = <<"return getLocalAirQuality", "wdt_reset">>

\* the API poll is being called, the watchdog just reset
C24_WitnessApi ==
    /\ threadAt = "apiPoll"
    /\ calls = <<"wdt_reset", "getAPIAirQuality">>

\* the statements of begin()
InBegin ==
    threadAt \in {"outer", "wifiBegin", "attempt", "attemptReset",
                  "attemptDelay", "attemptEnd", "backoff", "backoffReset",
                  "backoffDelay", "outerReset"}

NotConnected == wifiStatus # "WL_CONNECTED"

\* begin() returns
BeginReturns == InBegin /\ threadAt' = "loop"

\* C25: begin() returns only while WiFi reports connected; an attempt waits
\* WIFI_CONNECT_ATTEMPT_TIMEOUT_MS at most and, found not connected at its
\* end, is followed by a wait of WIFI_CONNECT_RETRY_DELAY_MS before the
\* next; while WiFi never connects begin() never returns and goes through
\* attempt and wait again and again; and once WiFi stays connected begin()
\* returns.
C25_BeginUntilConnected ==
    /\ [][BeginReturns => ~NotConnected]_vars
    /\ [](threadAt \in {"attempt", "attemptReset", "attemptDelay"}
            => waited <= WIFI_CONNECT_ATTEMPT_TIMEOUT_MS)
    /\ [][(threadAt = "attemptEnd" /\ NotConnected /\ threadAt' # threadAt)
            => threadAt' = "backoff"]_vars
    /\ [][(threadAt = "backoff" /\ threadAt' = "outerReset")
            => waited = WIFI_CONNECT_RETRY_DELAY_MS]_vars
    /\ []NotConnected
        => /\ [](threadAt # "loop")
           /\ []<>(threadAt = "wifiBegin")
           /\ []<>(threadAt = "backoff")
    /\ <>[](~NotConnected) => <>(threadAt = "loop")

\* begin() has returned, WiFi connected, after an attempt that failed and
\* the wait that followed it
C25_Witness ==
    /\ threadAt = "loop"
    /\ ~NotConnected
    /\ calls = <<"delay", "wdt_reset">>
    /\ sleep = SleepOf("backoffDelay")

-----------------------------------------------------------------------------
(* forceInitialUpdate: C26, C28, checked under Spec *)

InForceInitialUpdate == cycle.op = "forceInitialUpdate"

\* C26: forceInitialUpdate polls the local source exactly when it is
\* configured, and the API source exactly when it is configured and the
\* local source is unconfigured or its poll failed (so never after a local
\* success), whatever the time since the stamps.
C26_ForcedPolls ==
    InForceInitialUpdate =>
        /\ cycle.attemptedLocal <=> isLocalConfigured
        /\ cycle.attemptedApi <=>
               (apiConfigured /\ (~isLocalConfigured \/ cycle.localResult < 0))
        /\ (cycle.attemptedLocal /\ cycle.localResult >= 0)
               => ~cycle.attemptedApi

\* forceInitialUpdate polled both sources sooner after their latest polls
\* than either timer allows
C26_Witness ==
    /\ InForceInitialUpdate
    /\ cycle.attemptedLocal /\ cycle.attemptedApi
    /\ cycle.localGap # NoData /\ cycle.localGap < LOCAL_SENSOR_DELAY
    /\ cycle.apiGap # NoData /\ cycle.apiGap < PURPLE_AIR_DELAY

\* forceInitialUpdate polled the local source with success and no API,
\* though the API is configured
C26_WitnessShortCircuit ==
    /\ InForceInitialUpdate
    /\ apiConfigured
    /\ cycle.attemptedLocal /\ cycle.localResult >= 0
    /\ ~cycle.attemptedApi

\* C28: forceInitialUpdate(t) leaves both stamps equal to t, and an
\* updateAQI that follows it less than LOCAL_SENSOR_DELAY later makes no
\* poll.
C28_StampsAfterForce ==
    [][/\ cycle'.op = "forceInitialUpdate"
          => /\ lastLocalCheckTime' = ToLong(clock')
             /\ lastApiCheckTime' = ToLong(clock')
       /\ (/\ InForceInitialUpdate
           /\ cycle'.op = "updateAQI"
           /\ clock' - clock < LOCAL_SENSOR_DELAY)
          => (~cycle'.attemptedLocal /\ ~cycle'.attemptedApi)]_vars

\* both sources are configured, forceInitialUpdate at t > 0 polled both in
\* vain, and an updateAQI half a local interval later polled nothing
C28_Witness ==
    /\ InUpdateAQI
    /\ cycle.prev.op = "forceInitialUpdate"
    /\ cycle.prev.attemptedLocal /\ cycle.prev.attemptedApi
    /\ ~cycle.attemptedLocal /\ ~cycle.attemptedApi
    /\ lastLocalCheckTime = lastApiCheckTime
    /\ lastLocalCheckTime > 0
    /\ clock - lastLocalCheckTime = LOCAL_SENSOR_DELAY \div 2
    /\ currentAQI = NoData

\* no source is configured and forceInitialUpdate at t > 0 stamped both
C28_WitnessUnconfigured ==
    /\ InForceInitialUpdate
    /\ ~isLocalConfigured /\ ~apiConfigured
    /\ clock > 0
    /\ lastLocalCheckTime = clock /\ lastApiCheckTime = clock

-----------------------------------------------------------------------------
(* The held AQI and the local flag: C29 - C30, checked under Spec *)

\* C29: the held AQI is the no-data value or lies in 0..500.
C29_HeldAQIInRange ==
    currentAQI = NoData \/ currentAQI \in 0..500

\* C30: after a cycle that polled the local source the flag
\* localSensorAvailable is true exactly if the poll returned a valid AQI
\* (whatever its attempts read before failing), and a cycle that did not
\* poll the local source leaves the flag as it was.
C30_LocalFlag ==
    [][/\ cycle'.attemptedLocal
          => (localSensorAvailable' <=> cycle'.localResult >= 0)
       /\ ~cycle'.attemptedLocal
          => localSensorAvailable' = localSensorAvailable]_vars

\* the local source, the only one configured, succeeded in an earlier cycle
\* (the held AQI is its value) and its poll has now failed: the flag is
\* false
C30_Witness ==
    /\ cycle.attemptedLocal
    /\ cycle.localResult < 0
    /\ ~apiConfigured
    /\ currentAQI >= 0
    /\ ~localSensorAvailable

\* a cycle that made no local poll, after one that did: the flag is still
\* true
C30_WitnessKept ==
    /\ ~cycle.attemptedLocal
    /\ cycle.prev.attemptedLocal
    /\ localSensorAvailable

\* the same at the return of the poll itself, followed attempt by attempt
\* under PollSpec
C30_AtReturn ==
    Returned("getLocalAirQuality")
        => (localSensorAvailable <=> pollResult >= 0)

\* the last attempt of a poll read a negative direct AQI, which set the
\* flag, and the poll returned no-data with the flag false
C30_WitnessNegativeDirect ==
    /\ Returned("getLocalAirQuality")
    /\ docId # 0
    /\ containsKey(LocalDocs[docId].members, "pm2.5_aqi")
    /\ currentAttemptAQI < 0
    /\ pollResult = NoData
    /\ ~localSensorAvailable

-----------------------------------------------------------------------------
(* The outputs of the controller: C31, checked under VentSpec *)

\* both relays carry the stored state and the indicator shows the
\* on-colour exactly when the state is Ventilating
OutputsFollowState ==
    /\ relay1 = ventilationState
    /\ relay2 = ventilationState
    /\ led = VENTILATION_ON <=> ventilationState

\* update() has been called since construction
Updated == ventCall.op = "update" \/ ventCall.previousSwitch # "none"

\* C31: in every reachable state, from construction onwards, both relay
\* outputs carry the same value, that value is the stored ventilation state,
\* and the indicator shows the on-colour exactly when the state is
\* Ventilating.
C31_OutputsFollowState == OutputsFollowState

\* the same from the first update onwards
C31_AfterFirstUpdate == Updated => OutputsFollowState

\* an update switched the ventilation off, a later begin() left it so: the
\* relays are low and the indicator shows the off-colour
C31_Witness ==
    /\ ventCall.op = "begin"
    /\ Updated
    /\ ~ventilationState
    /\ ~relay1 /\ ~relay2
    /\ led = VENTILATION_OFF

\* constructed and begun, never updated: the state is Ventilating, nothing
\* has been written to the outputs
C31_WitnessBeforeUpdate ==
    /\ ventCall.op = "begin"
    /\ ~Updated
    /\ ventilationState
    /\ ~relay1 /\ ~relay2
    /\ led # VENTILATION_ON

-----------------------------------------------------------------------------
(* The API after a local success: C32, checked under Spec *)

\* C32: an updateAQI that polls the API does so no sooner than
\* PURPLE_AIR_DELAY after the latest local success, whatever the local polls
\* in between did; and with a local source configured it polls the API only
\* in a cycle whose local poll failed, so never while every local poll
\* succeeds.
C32_ApiAfterLocalSuccess ==
    (InUpdateAQI /\ cycle.attemptedApi)
    => /\ localSuccessAt # NoData
          => clock - localSuccessAt >= PURPLE_AIR_DELAY
       /\ isLocalConfigured
          => (cycle.attemptedLocal /\ cycle.localResult < 0)

\* the local poll failed less than PURPLE_AIR_DELAY after a local success:
\* the API, though configured, was not polled
C32_Witness ==
    /\ InUpdateAQI
    /\ apiConfigured
    /\ cycle.attemptedLocal /\ cycle.localResult < 0
    /\ localSuccessAt # NoData
    /\ clock - localSuccessAt < PURPLE_AIR_DELAY
    /\ ~cycle.attemptedApi

\* the local poll failed PURPLE_AIR_DELAY or more after the latest local
\* success and the API was polled
C32_WitnessPolled ==
    /\ InUpdateAQI
    /\ cycle.attemptedLocal /\ cycle.localResult < 0
    /\ localSuccessAt # NoData
    /\ clock - localSuccessAt >= PURPLE_AIR_DELAY
    /\ cycle.attemptedApi

-----------------------------------------------------------------------------
(* The held AQI becomes valid: C33, checked under LoopSpec *)

\* C33: with the API configured and answering every poll with a valid AQI,
\* and updateAQI called again and again in steps shorter than the poll
\* intervals, the held AQI eventually is valid, whatever the local polls
\* return.
C33_EventuallyValid == apiConfigured => <>(currentAQI >= 0)

\* a local source is configured and none of its polls has succeeded; the
\* API poll of this cycle, an API interval after the start, gave the held
\* AQI
C33_Witness ==
    /\ InUpdateAQI
    /\ isLocalConfigured
    /\ localSuccessAt = NoData
    /\ cycle.attemptedLocal /\ cycle.localResult < 0
    /\ cycle.attemptedApi /\ cycle.apiResult >= 0
    /\ clock >= PURPLE_AIR_DELAY
    /\ currentAQI = cycle.apiResult

-----------------------------------------------------------------------------
(* Gating on a wrapping clock: C34, checked under WrapSpec *)

InWrappedCall == trueElapsed.localAtCall # NoData

\* C34: with less than 2^32 ms really passed since a stamp, updateAQI takes
\* the source for due exactly when the time passed is at least its
\* interval: the local source is polled exactly when it is configured and
\* due, the API exactly when it is configured, no local source stands
\* before it, and it is due.
C34_GatingAcrossWrap ==
    InWrappedCall
    => /\ trueElapsed.localAtCall < ULongRange
          => (cycle.attemptedLocal
              <=> (isLocalConfigured
                   /\ trueElapsed.localAtCall >= LOCAL_SENSOR_DELAY))
       /\ trueElapsed.apiAtCall < ULongRange
          => /\ cycle.apiTimerDue <=> trueElapsed.apiAtCall >= PURPLE_AIR_DELAY
             /\ cycle.attemptedApi
                <=> /\ apiConfigured
                    /\ isLocalConfigured
                        => (cycle.attemptedLocal /\ cycle.localResult < 0)
                    /\ trueElapsed.apiAtCall >= PURPLE_AIR_DELAY

\* the clock wrapped between the local stamp and the call, which came a
\* tick before the local interval had passed: no poll
C34_Witness ==
    /\ InWrappedCall
    /\ isLocalConfigured
    /\ lastLocalCheckTime < 0
    /\ clock < LOCAL_SENSOR_DELAY
    /\ trueElapsed.localAtCall = LOCAL_SENSOR_DELAY - 1
    /\ ~cycle.attemptedLocal

\* the local stamp was beyond 2^31 ms, stored as a negative long, and the
\* call came an interval later: the source is polled
C34_WitnessSignedStamp ==
    /\ InWrappedCall
    /\ isLocalConfigured
    /\ trueElapsed.calls = 2
    /\ trueElapsed.localAtCall = LOCAL_SENSOR_DELAY
    /\ clock = ULongRange \div 2 + LOCAL_SENSOR_DELAY
    /\ cycle.attemptedLocal

-----------------------------------------------------------------------------
(* The timing getters: C35, checked under WrapSpec *)

InGetterCall == timerCall.op # "none"

\* the interval of the source the latest getter call was about, and whether
\* that source is configured
GetterInterval ==
    IF timerCall.op = "getTimeUntilNextLocalCheck"
    THEN LOCAL_SENSOR_DELAY ELSE PURPLE_AIR_DELAY

GetterConfigured ==
    IF timerCall.op = "getTimeUntilNextLocalCheck"
    THEN isLocalConfigured ELSE apiConfigured

\* C35: with less than 2^32 ms really passed since the stamp, a getter
\* returns a value from 0 to the interval of its source, and for a
\* configured source it returns 0 exactly when the time passed since the
\* stamp is at least the interval.
C35_TimeUntilNext ==
    (InGetterCall /\ timerCall.elapsed < ULongRange)
    => /\ timerCall.result \in 0..GetterInterval
       /\ GetterConfigured
          => (timerCall.result = 0 <=> timerCall.elapsed >= GetterInterval)

\* the same with less than 2^31 ms passed since the stamp
C35_WithinHalfRange ==
    (InGetterCall /\ timerCall.elapsed < ULongRange \div 2)
    => /\ timerCall.result \in 0..GetterInterval
       /\ GetterConfigured
          => (timerCall.result = 0 <=> timerCall.elapsed >= GetterInterval)

\* a getter called after the clock wrapped, a tick before the interval has
\* passed since the stamp of its configured source
C35_WitnessWrapped ==
    /\ InGetterCall
    /\ GetterConfigured
    /\ trueElapsed.calls > 0
    /\ clock + timerCall.elapsed >= ULongRange
    /\ timerCall.elapsed = GetterInterval - 1
    /\ timerCall.result = 1

\* 2^31 ms after the stamp of a configured source a getter returns more
\* than the interval
C35_WitnessLate ==
    /\ InGetterCall
    /\ GetterConfigured
    /\ timerCall.elapsed = ULongRange \div 2
    /\ timerCall.result > GetterInterval

====
